---- MODULE Spec2Model ----
(***************************************************************************)
(* A model of the Kanban domain store (src/kanban/storage.py, class        *)
(* KanbanDataStore) and of the dataclasses it stores                        *)
(* (src/kanban/models.py).                                                  *)
(*                                                                         *)
(* The store's five dictionaries are functions from an ID to a record;     *)
(* Python's dictionary insertion order is not tracked, so the lists of a   *)
(* snapshot document are sets of records.  Opaque IDs (uuid4) are          *)
(* "<prefix>_<n>" with n drawn from a counter that never repeats.  Task    *)
(* IDs are the strings the code formats.  The clock is a counter of        *)
(* seconds.  Every store method is one action, total in its arguments:     *)
(* with an ID the store does not hold it takes the path the KeyError       *)
(* takes.  The variable last records the call that made the step.          *)
(***************************************************************************)
EXTENDS Naturals, Sequences, FiniteSets, TLC

VARIABLES
    boards,           \* self.boards           : board id   -> Board
    stories,          \* self.stories          : story id   -> Story
    tasks,            \* self.tasks            : task id    -> Task
    comments,         \* self.comments         : comment id -> Comment
    reviews,          \* self.reviews          : review id  -> WeeklyReview
    story_sequences,  \* self.story_sequences  : story code -> last number issued
    file,             \* the content of the backing file self.path
    exported,         \* the content of the file export_to wrote / import_from reads
    uid,              \* how many opaque IDs generate_id has produced
    clock,            \* the second current_timestamp reads
    issued,           \* history: the IDs _next_task_id has returned, in order
    calls,            \* history: how many calls SpecAll has made
    last              \* the call that made the last step, its arguments and outcome

vars == <<boards, stories, tasks, comments, reviews, story_sequences, file,
          exported, uid, clock, issued, calls, last>>

mem == <<boards, stories, tasks, comments, reviews, story_sequences>>

(***************************************************************************)
(* Bounds of the model.                                                    *)
(***************************************************************************)
MaxUid == 7        \* opaque IDs generated in one run of Spec
MaxUidCodec == 5   \* opaque IDs generated in one run of SpecCodec
MaxUidCrash == 4   \* opaque IDs generated in one run of SpecCrash
MaxCalls == 5      \* calls made in one run of SpecAll
MaxEdits == 2      \* edits of one comment
MaxClock == 2      \* instants the clock advances in one run
MaxUidMalformed == 5 \* opaque IDs generated in one run of SpecMalformed
MaxUidColumns == 6 \* opaque IDs generated in one run of SpecColumns
MaxReorder == 3    \* column IDs in one reorder_columns call
MaxUidTimed == 6   \* opaque IDs generated in one run of SpecTimed
MaxUidAlloc == 3   \* opaque IDs generated in one run of SpecAlloc
MaxCallsStale == 5 \* calls made in one run of SpecStale

(***************************************************************************)
(* Inputs.                                                                 *)
(***************************************************************************)
Codes == {"ABC", "XY"}
Absent == "absent"                  \* an ID no collection ever holds
None == <<>>                        \* Python's None, for an Optional value
Some(x) == <<x>>
DefaultColumns == <<"Backlog", "In Progress", "Done">>
SchemaVersion == "1.0"

(***************************************************************************)
(* Dictionaries.                                                           *)
(***************************************************************************)
EmptyMap == [k \in {} |-> k]
Put(f, k, v) == [x \in DOMAIN f \cup {k} |-> IF x = k THEN v ELSE f[x]]
Drop(f, K) == [x \in DOMAIN f \ K |-> f[x]]
Get(f, k, default) == IF k \in DOMAIN f THEN f[k] ELSE default
Max(a, b) == IF a >= b THEN a ELSE b
Range(s) == {s[i] : i \in DOMAIN s}

(***************************************************************************)
(* models.py: the dataclasses, their constructors and defaults.            *)
(***************************************************************************)
generate_id(prefix, k) == prefix \o "_" \o ToString(uid + k)  \* the k-th ID of a call

Column(id, name) == [id |-> id, name |-> name]

BoardSettings ==
    [default_columns |-> DefaultColumns, wip_help_text |-> "",
     show_color_legend |-> TRUE]

Board(id, name, columns) ==
    [id |-> id, name |-> name, columns |-> columns, archived |-> FALSE,
     settings |-> BoardSettings]

Story(id, code, title) ==
    [id |-> id, code |-> code, title |-> title, description |-> "",
     color |-> "#007ACC", tags |-> <<>>, status |-> "Planned",
     archived |-> FALSE]

HistoryEntry(id, task_id, timestamp, event_type, payload) ==
    [id |-> id, task_id |-> task_id, timestamp |-> timestamp,
     event_type |-> event_type, payload |-> payload]

Task(id, board_id, column_id, story_id, title, kw, archived, history) ==
    [id |-> id, board_id |-> board_id, column_id |-> column_id,
     story_id |-> story_id, title |-> title,
     description |-> kw.description, priority |-> kw.priority,
     estimate |-> kw.estimate, due_date |-> kw.due_date, tags |-> kw.tags,
     archived |-> archived, history |-> history]

NoKwargs ==
    [description |-> "", priority |-> "", estimate |-> "", due_date |-> None,
     tags |-> <<>>]

Comment(id, task_id, timestamp, author, body) ==
    [id |-> id, task_id |-> task_id, timestamp |-> timestamp,
     author |-> author, body |-> body, edited_history |-> <<>>]

WeeklyReview(id, board_ids, story_ids, start_date, end_date, summary, evidence) ==
    [id |-> id, board_ids |-> board_ids, story_ids |-> story_ids,
     start_date |-> start_date, end_date |-> end_date,
     summary_markdown |-> summary, evidence |-> evidence]

(***************************************************************************)
(* to_dict: what _save writes for one entity.                              *)
(***************************************************************************)
ColumnToDict(c) == [id |-> c.id, name |-> c.name]

BoardToDict(b) ==
    [id |-> b.id, name |-> b.name,
     columns |-> [i \in DOMAIN b.columns |-> ColumnToDict(b.columns[i])],
     archived |-> b.archived,
     settings |-> [default_columns |-> b.settings.default_columns,
                   wip_help_text |-> b.settings.wip_help_text,
                   show_color_legend |-> b.settings.show_color_legend]]

StoryToDict(s) ==
    [id |-> s.id, code |-> s.code, title |-> s.title,
     description |-> s.description, color |-> s.color, tags |-> s.tags,
     status |-> s.status, archived |-> s.archived]

HistoryToDict(h) ==
    [id |-> h.id, task_id |-> h.task_id, timestamp |-> h.timestamp,
     event_type |-> h.event_type, payload |-> h.payload]

TaskToDict(t) ==
    [id |-> t.id, board_id |-> t.board_id, column_id |-> t.column_id,
     story_id |-> t.story_id, title |-> t.title,
     description |-> t.description, priority |-> t.priority,
     estimate |-> t.estimate, due_date |-> t.due_date, tags |-> t.tags,
     archived |-> t.archived,
     history |-> [i \in DOMAIN t.history |-> HistoryToDict(t.history[i])]]

CommentToDict(c) ==
    [id |-> c.id, task_id |-> c.task_id, timestamp |-> c.timestamp,
     author |-> c.author, body |-> c.body,
     edited_history |-> c.edited_history]

ReviewToDict(r) ==
    [id |-> r.id, board_ids |-> r.board_ids, story_ids |-> r.story_ids,
     start_date |-> r.start_date, end_date |-> r.end_date,
     summary_markdown |-> r.summary_markdown, evidence |-> r.evidence]

(***************************************************************************)
(* _save: the document built from the six collections.  A list of the      *)
(* document is the set of its records.                                     *)
(***************************************************************************)
SaveDoc(bs, ss, ts, cs, rs, seqs) ==
    [boards |-> {BoardToDict(bs[k]) : k \in DOMAIN bs},
     stories |-> {StoryToDict(ss[k]) : k \in DOMAIN ss},
     tasks |-> {TaskToDict(ts[k]) : k \in DOMAIN ts},
     comments |-> {CommentToDict(cs[k]) : k \in DOMAIN cs},
     weekly_reviews |-> {ReviewToDict(rs[k]) : k \in DOMAIN rs},
     story_sequences |-> seqs,
     schema_version |-> SchemaVersion]

(***************************************************************************)
(* The backing file: written "full" it holds a whole document; a write     *)
(* that did not finish leaves it "empty" (opened, truncated, nothing       *)
(* flushed) or "prefix" (part of the text flushed).                        *)
(***************************************************************************)
FullFile(doc) == [written |-> "full", doc |-> doc]
BrokenFile(how, doc) == [written |-> how, doc |-> doc]

(***************************************************************************)
(* Reading entities back: the constructors _load and _load_from_dict       *)
(* apply to the records of a document.  A document _save wrote has every   *)
(* key, so the data.get defaults are never taken.                          *)
(***************************************************************************)
ColumnFromDict(d) == Column(d.id, d.name)

BoardFromDict(d) ==
    [id |-> d.id, name |-> d.name,
     columns |-> [i \in DOMAIN d.columns |-> ColumnFromDict(d.columns[i])],
     archived |-> d.archived,
     settings |-> [default_columns |-> d.settings.default_columns,
                   wip_help_text |-> d.settings.wip_help_text,
                   show_color_legend |-> d.settings.show_color_legend]]

StoryFromDict(d) ==
    [id |-> d.id, code |-> d.code, title |-> d.title,
     description |-> d.description, color |-> d.color, tags |-> d.tags,
     status |-> d.status, archived |-> d.archived]

HistoryFromDict(d) ==
    HistoryEntry(d.id, d.task_id, d.timestamp, d.event_type, d.payload)

TaskFromDict(d) ==
    Task(d.id, d.board_id, d.column_id, d.story_id, d.title,
         [description |-> d.description, priority |-> d.priority,
          estimate |-> d.estimate, due_date |-> d.due_date, tags |-> d.tags],
         d.archived,
         [i \in DOMAIN d.history |-> HistoryFromDict(d.history[i])])

\* a Comment read back without its edit log
CommentFromDictNoLog(d) ==
    [id |-> d.id, task_id |-> d.task_id, timestamp |-> d.timestamp,
     author |-> d.author, body |-> d.body, edited_history |-> <<>>]

CommentFromDict(d) ==
    [id |-> d.id, task_id |-> d.task_id, timestamp |-> d.timestamp,
     author |-> d.author, body |-> d.body,
     edited_history |-> d.edited_history]

ReviewFromDict(d) ==
    WeeklyReview(d.id, d.board_ids, d.story_ids, d.start_date, d.end_date,
                 d.summary_markdown, d.evidence)

\* for x_data in data[...]: self.xs[x.id] = x   (a later record of the same
\* ID replaces an earlier one; a document _save wrote has each ID once)
LoadAll(records) ==
    [i \in {r.id : r \in records} |-> CHOOSE r \in records : r.id = i]

\* a merge in which the incoming record replaces the local one
MergeAllIncomingWins(local, records) ==
    LET incoming == [i \in {r.id : r \in records} |->
                        CHOOSE r \in records : r.id = i]
    IN  [i \in DOMAIN local \cup DOMAIN incoming |->
            IF i \in DOMAIN incoming THEN incoming[i] ELSE local[i]]

\* for x_data in data[...]: if x_data["id"] in self.xs: continue
MergeAll(local, records) ==
    LET incoming == LoadAll(records)
    IN  [i \in DOMAIN local \cup DOMAIN incoming |->
            IF i \in DOMAIN local THEN local[i] ELSE incoming[i]]

\* a merge that adds the document's counter to the local one
MergeSequencesAdded(local, incoming) ==
    [c \in DOMAIN local \cup DOMAIN incoming |->
        Get(incoming, c, 0) + Get(local, c, 0)]

\* a merge that leaves the document's counters out
MergeSequencesLocalOnly(local, incoming) == local

\* self.story_sequences[code] = max(sequence, self.story_sequences.get(code, 0))
MergeSequences(local, incoming) ==
    [c \in DOMAIN local \cup DOMAIN incoming |->
        IF c \in DOMAIN incoming
        THEN Max(incoming[c], Get(local, c, 0))
        ELSE local[c]]

\* _load: what a store constructed on a document holds
Load(doc) ==
    <<LoadAll({BoardFromDict(d) : d \in doc.boards}),
      LoadAll({StoryFromDict(d) : d \in doc.stories}),
      LoadAll({TaskFromDict(d) : d \in doc.tasks}),
      LoadAll({CommentFromDict(d) : d \in doc.comments}),
      LoadAll({ReviewFromDict(d) : d \in doc.weekly_reviews}),
      doc.story_sequences>>

\* _load_from_dict: the collections after merging a document into them
LoadFromDict(bs, ss, ts, cs, rs, seqs, doc) ==
    <<MergeAll(bs, {BoardFromDict(d) : d \in doc.boards}),
      MergeAll(ss, {StoryFromDict(d) : d \in doc.stories}),
      MergeAll(ts, {TaskFromDict(d) : d \in doc.tasks}),
      MergeAll(cs, {CommentFromDict(d) : d \in doc.comments}),
      MergeAll(rs, {ReviewFromDict(d) : d \in doc.weekly_reviews}),
      MergeSequences(seqs, doc.story_sequences)>>

(***************************************************************************)
(* The state after KanbanDataStore(path) on a path that does not exist:    *)
(* _load finds no file and _save writes the empty document.                *)
(***************************************************************************)
EmptyDoc == SaveDoc(EmptyMap, EmptyMap, EmptyMap, EmptyMap, EmptyMap, EmptyMap)
NoFile == [written |-> "none", doc |-> EmptyDoc]

Called(op, status, args, ret) ==
    [op |-> op, status |-> status, args |-> args, ret |-> ret]

Init ==
    /\ boards = EmptyMap
    /\ stories = EmptyMap
    /\ tasks = EmptyMap
    /\ comments = EmptyMap
    /\ reviews = EmptyMap
    /\ story_sequences = EmptyMap
    /\ file = FullFile(EmptyDoc)
    /\ exported = NoFile
    /\ uid = 0
    /\ clock = 0
    /\ issued = <<>>
    /\ calls = 0
    /\ last = Called("__init__", "ok", <<>>, "")

\* self.path.write_text(json.dumps(data, indent=2)), completed
Save ==
    file' = FullFile(SaveDoc(boards', stories', tasks', comments', reviews',
                             story_sequences'))

current_timestamp == clock

\* an enumeration of a finite set, for loops whose order the model does not track
Enum(S) == CHOOSE s \in [1..Cardinality(S) -> S] : Range(s) = S
IndexIn(s, x) == CHOOSE i \in DOMAIN s : s[i] = x

\* a call that raises before it changes anything
Raises(op, error, args) ==
    /\ last' = Called(op, error, args, "")
    /\ UNCHANGED <<boards, stories, tasks, comments, reviews, story_sequences,
                   file, exported, uid, clock, issued>>

(***************************************************************************)
(* Board management                                                        *)
(***************************************************************************)
create_board(name, columns) ==
    LET labels == IF columns = None THEN DefaultColumns ELSE columns[1]
        board_id == generate_id("board", 1)
        board_columns == [i \in DOMAIN labels |->
                             Column(generate_id("col", 1 + i), labels[i])]
    IN  /\ uid' = uid + 1 + Len(labels)
        /\ boards' = Put(boards, board_id, Board(board_id, name, board_columns))
        /\ UNCHANGED <<stories, tasks, comments, reviews, story_sequences,
                       exported, clock, issued>>
        /\ Save
        /\ last' = Called("create_board", "ok", <<name>>, board_id)

rename_board(board_id, new_name) ==
    IF board_id \notin DOMAIN boards
    THEN Raises("rename_board", "KeyError", <<board_id, new_name>>)
    ELSE /\ boards' = [boards EXCEPT ![board_id].name = new_name]
         /\ UNCHANGED <<stories, tasks, comments, reviews, story_sequences,
                        exported, uid, clock, issued>>
         /\ Save
         /\ last' = Called("rename_board", "ok", <<board_id, new_name>>, "")

archive_board(board_id, archived) ==
    IF board_id \notin DOMAIN boards
    THEN Raises("archive_board", "KeyError", <<board_id>>)
    ELSE /\ boards' = [boards EXCEPT ![board_id].archived = archived]
         /\ UNCHANGED <<stories, tasks, comments, reviews, story_sequences,
                        exported, uid, clock, issued>>
         /\ Save
         /\ last' = Called("archive_board", "ok", <<board_id>>, "")

\* a delete_task that leaves the comments of the task behind
CommentsKept(doomed) == comments

\* a cascade that stops after the first task it deletes
TasksWithoutOne(doomed) ==
    IF doomed = {} THEN tasks ELSE Drop(tasks, {CHOOSE t \in doomed : TRUE})

\* a cascade that deletes the comments of every task but the doomed ones
CommentsOfOthersGone(doomed) ==
    Drop(comments, {c \in DOMAIN comments : comments[c].task_id \notin doomed})

\* delete_task(task_id, save=False) for every task of the set doomed
TasksWithout(doomed) == Drop(tasks, doomed)
CommentsWithout(doomed) ==
    Drop(comments, {c \in DOMAIN comments : comments[c].task_id \in doomed})

delete_board(board_id) ==
    LET doomed == {t \in DOMAIN tasks : tasks[t].board_id = board_id}
    IN  /\ tasks' = TasksWithout(doomed)
        /\ comments' = CommentsWithout(doomed)
        /\ UNCHANGED <<stories, reviews, story_sequences, exported, uid, clock,
                       issued>>
        /\ IF board_id \in DOMAIN boards
           THEN /\ boards' = Drop(boards, {board_id})
                /\ Save
                /\ last' = Called("delete_board", "ok", <<board_id>>, "")
           ELSE \* del self.boards[board_id] raises after the loop ran
                /\ UNCHANGED <<boards, file>>
                /\ last' = Called("delete_board", "KeyError", <<board_id>>, "")

add_column(board_id, name) ==
    LET column == Column(generate_id("col", 1), name)
    IN  /\ uid' = uid + 1
        /\ UNCHANGED <<stories, tasks, comments, reviews, story_sequences,
                       exported, clock, issued>>
        /\ IF board_id \in DOMAIN boards
           THEN /\ boards' = [boards EXCEPT
                                 ![board_id].columns = Append(@, column)]
                /\ Save
                /\ last' = Called("add_column", "ok", <<board_id, name>>, column.id)
           ELSE /\ UNCHANGED <<boards, file>>
                /\ last' = Called("add_column", "KeyError", <<board_id, name>>, "")

\* a removal that sends the tasks to the board's last column
LastColumnId(columns) == IF columns # <<>> THEN columns[Len(columns)].id ELSE ""

\* board.columns[0].id if board.columns else ""
FirstColumnId(columns) == IF columns # <<>> THEN columns[1].id ELSE ""

remove_column(board_id, column_id) ==
    IF board_id \notin DOMAIN boards
    THEN Raises("remove_column", "KeyError", <<board_id, column_id>>)
    ELSE LET remaining == SelectSeq(boards[board_id].columns,
                                    LAMBDA c : c.id # column_id)
             hit == {t \in DOMAIN tasks : tasks[t].column_id = column_id}
             order == Enum(hit)
             entry(t) == HistoryEntry(generate_id("hist", IndexIn(order, t)),
                                      tasks[t].id, current_timestamp,
                                      "column-removed",
                                      [column_id |-> column_id])
         IN  /\ uid' = uid + Cardinality(hit)
             /\ boards' = [boards EXCEPT ![board_id].columns = remaining]
             /\ tasks' = [t \in DOMAIN tasks |->
                            IF t \in hit
                            THEN [tasks[t] EXCEPT
                                    !.column_id = FirstColumnId(remaining),
                                    !.history = Append(@, entry(t))]
                            ELSE tasks[t]]
             /\ UNCHANGED <<stories, comments, reviews, story_sequences,
                            exported, clock, issued>>
             /\ Save
             /\ last' = Called("remove_column", "ok", <<board_id, column_id>>, "")

\* a reorder that keeps the columns named, in the order the board has them
KeptInBoardOrder(columns, column_ids) ==
    SelectSeq(columns, LAMBDA c : c.id \in Range(column_ids))

\* [id_to_column[cid] for cid in column_ids if cid in id_to_column]
ReorderedColumns(columns, column_ids) ==
    LET known == {columns[i].id : i \in DOMAIN columns}
        \* a dict built from a list keeps the last column of each ID
        id_to_column(cid) ==
            columns[CHOOSE i \in DOMAIN columns :
                       /\ columns[i].id = cid
                       /\ \A j \in DOMAIN columns :
                             columns[j].id = cid => j <= i]
        kept == SelectSeq(column_ids, LAMBDA cid : cid \in known)
    IN  [i \in DOMAIN kept |-> id_to_column(kept[i])]

reorder_columns(board_id, column_ids) ==
    IF board_id \notin DOMAIN boards
    THEN Raises("reorder_columns", "KeyError", <<board_id, column_ids>>)
    ELSE LET columns == boards[board_id].columns
         IN  /\ boards' = [boards EXCEPT ![board_id].columns =
                              ReorderedColumns(columns, column_ids)]
             /\ UNCHANGED <<stories, tasks, comments, reviews, story_sequences,
                            exported, uid, clock, issued>>
             /\ Save
             /\ last' = Called("reorder_columns", "ok",
                               <<board_id, column_ids>>, "")

(***************************************************************************)
(* Stories                                                                 *)
(***************************************************************************)
\* a counter that is set to 0 whenever a story takes the code
SetZero(seqs, code) == Put(seqs, code, 0)

\* dict.setdefault(code, 0)
SetDefault(seqs, code) == IF code \in DOMAIN seqs THEN seqs ELSE Put(seqs, code, 0)

\* setattr(obj, name, value) for every entry of kwargs
SetAttrs(obj, kwargs) ==
    [f \in DOMAIN obj \cup DOMAIN kwargs |->
        IF f \in DOMAIN kwargs THEN kwargs[f] ELSE obj[f]]

create_story(code, title) ==
    LET story_id == generate_id("story", 1)
    IN  /\ uid' = uid + 1
        /\ stories' = Put(stories, story_id, Story(story_id, code, title))
        /\ story_sequences' = SetDefault(story_sequences, code)
        /\ UNCHANGED <<boards, tasks, comments, reviews, exported, clock,
                       issued>>
        /\ Save
        /\ last' = Called("create_story", "ok", <<code, title>>, story_id)

update_story(story_id, kwargs) ==
    IF story_id \notin DOMAIN stories
    THEN Raises("update_story", "KeyError", <<story_id, kwargs>>)
    ELSE /\ stories' = [stories EXCEPT ![story_id] = SetAttrs(@, kwargs)]
         /\ story_sequences' =
               IF "code" \in DOMAIN kwargs
               THEN SetDefault(story_sequences, stories'[story_id].code)
               ELSE story_sequences
         /\ UNCHANGED <<boards, tasks, comments, reviews, exported, uid, clock,
                        issued>>
         /\ Save
         /\ last' = Called("update_story", "ok", <<story_id, kwargs>>, "")

\* an archive_story that returns without saving
archive_story_unsaved(story_id, archived) ==
    /\ story_id \in DOMAIN stories
    /\ stories' = [stories EXCEPT ![story_id].archived = archived]
    /\ UNCHANGED <<boards, tasks, comments, reviews, story_sequences, file,
                   exported, uid, clock, issued>>
    /\ last' = Called("archive_story", "ok", <<story_id>>, "")

archive_story(story_id, archived) ==
    IF story_id \notin DOMAIN stories
    THEN Raises("archive_story", "KeyError", <<story_id>>)
    ELSE /\ stories' = [stories EXCEPT ![story_id].archived = archived]
         /\ UNCHANGED <<boards, tasks, comments, reviews, story_sequences,
                        exported, uid, clock, issued>>
         /\ Save
         /\ last' = Called("archive_story", "ok", <<story_id>>, "")

delete_story(story_id) ==
    LET doomed == {t \in DOMAIN tasks : tasks[t].story_id = story_id}
    IN  /\ tasks' = TasksWithout(doomed)
        /\ comments' = CommentsWithout(doomed)
        /\ UNCHANGED <<boards, reviews, story_sequences, exported, uid, clock,
                       issued>>
        /\ IF story_id \in DOMAIN stories
           THEN /\ stories' = Drop(stories, {story_id})
                /\ Save
                /\ last' = Called("delete_story", "ok", <<story_id>>, "")
           ELSE \* del self.stories[story_id] raises after the loop ran
                /\ UNCHANGED <<stories, file>>
                /\ last' = Called("delete_story", "KeyError", <<story_id>>, "")

(***************************************************************************)
(* Tasks                                                                   *)
(***************************************************************************)
\* f"{sequence:03d}": at least three digits, more when the number needs them
Pad3(n) ==
    IF n < 10 THEN "00" \o ToString(n)
    ELSE IF n < 100 THEN "0" \o ToString(n)
    ELSE ToString(n)

FormatTaskId(story_code, sequence) == story_code \o "-" \o Pad3(sequence)

\* a numbering by the tasks now stored under the code, which reuses numbers
NextSequenceByCount(story_code) ==
    Cardinality({t \in DOMAIN tasks :
                    /\ tasks[t].story_id \in DOMAIN stories
                    /\ stories[tasks[t].story_id].code = story_code}) + 1

\* an ID formatted from the counter as it was before the increment
NextTaskIdBeforeIncrement(story_code) ==
    FormatTaskId(story_code, Get(story_sequences, story_code, 0))

\* _next_task_id: the number it stores and the ID it returns
NextSequence(story_code) == Get(story_sequences, story_code, 0) + 1
NextTaskId(story_code) == FormatTaskId(story_code, NextSequence(story_code))

\* the history variable records what _next_task_id returned
Issue(story_code, task_id) ==
    issued' = Append(issued, [code |-> story_code,
                              number |-> NextSequence(story_code),
                              id |-> task_id])

\* a created entry that records the column only
CreatedPayloadColumnOnly(board_id, column_id) == [column_id |-> column_id]

\* payload={"board_id": board_id, "column_id": column_id}
CreatedPayload(board_id, column_id) ==
    [board_id |-> board_id, column_id |-> column_id]

create_task(board_id, column_id, story_id, title, kwargs) ==
    IF story_id \notin DOMAIN stories
    THEN Raises("create_task", "KeyError", <<board_id, column_id, story_id>>)
    ELSE LET code == stories[story_id].code
             task_id == NextTaskId(code)
             created == HistoryEntry(generate_id("hist", 1), task_id,
                                     current_timestamp, "created",
                                     CreatedPayload(board_id, column_id))
             task == Task(task_id, board_id, column_id, story_id, title,
                          kwargs, FALSE, <<created>>)
         IN  /\ uid' = uid + 1
             /\ story_sequences' = Put(story_sequences, code, NextSequence(code))
             /\ Issue(code, task_id)
             /\ tasks' = Put(tasks, task_id, task)
             /\ UNCHANGED <<boards, stories, comments, reviews, exported, clock>>
             /\ Save
             /\ last' = Called("create_task", "ok",
                               <<board_id, column_id, story_id>>, task_id)

\* if hasattr(task, field_name): setattr(task, field_name, value)
SetKnownAttrs(obj, kwargs) ==
    [f \in DOMAIN obj |-> IF f \in DOMAIN kwargs THEN kwargs[f] ELSE obj[f]]

update_task(task_id, kwargs) ==
    IF task_id \notin DOMAIN tasks
    THEN Raises("update_task", "KeyError", <<task_id, kwargs>>)
    ELSE /\ tasks' = [tasks EXCEPT ![task_id] = SetKnownAttrs(@, kwargs)]
         /\ UNCHANGED <<boards, stories, comments, reviews, story_sequences,
                        exported, uid, clock, issued>>
         /\ Save
         /\ last' = Called("update_task", "ok", <<task_id, kwargs>>, "")

\* a move that records an entry also when the column is the one the task is in
MoveAlwaysRecorded(task, new_column_id) == FALSE

\* if task.column_id == new_column_id: return
MoveIsNoOp(task, new_column_id) == task.column_id = new_column_id

move_task(task_id, new_column_id) ==
    IF task_id \notin DOMAIN tasks
    THEN Raises("move_task", "KeyError", <<task_id, new_column_id>>)
    ELSE IF MoveIsNoOp(tasks[task_id], new_column_id)
    THEN \* return: nothing is changed and nothing is written
         /\ last' = Called("move_task", "ok", <<task_id, new_column_id>>, "")
         /\ UNCHANGED <<boards, stories, tasks, comments, reviews,
                        story_sequences, file, exported, uid, clock, issued>>
    ELSE LET moved == HistoryEntry(generate_id("hist", 1), task_id,
                                   current_timestamp, "column-moved",
                                   [column_id |-> new_column_id])
         IN  /\ uid' = uid + 1
             /\ tasks' = [tasks EXCEPT
                            ![task_id].column_id = new_column_id,
                            ![task_id].history = Append(@, moved)]
             /\ UNCHANGED <<boards, stories, comments, reviews,
                            story_sequences, exported, clock, issued>>
             /\ Save
             /\ last' = Called("move_task", "ok", <<task_id, new_column_id>>, "")

\* a rehome that starts the new record's history afresh
RehomedHistoryReset(history, marker) == <<marker>>

\* a rehome whose marker is stamped with the ID of the new task
RehomedHistoryRestamped(history, marker) ==
    Append(history, [marker EXCEPT !.task_id = marker.payload.new_task_id])

\* a rehome that puts its marker in front of the entries carried over
RehomedHistoryMarkerFirst(history, marker) == <<marker>> \o history

\* task.history.append(marker); history=list(task.history)
RehomedHistory(history, marker) == Append(history, marker)

\* a rehome that makes the new task with the dataclass default, not archived
RehomedNotArchived(task) == FALSE

\* archived=task.archived
RehomedArchived(task) == task.archived

rehome_task(task_id, target_story_id) ==
    IF \/ task_id \notin DOMAIN tasks
       \/ tasks[task_id].story_id \notin DOMAIN stories
       \/ target_story_id \notin DOMAIN stories
    THEN Raises("rehome_task", "KeyError", <<task_id, target_story_id>>)
    ELSE LET task == tasks[task_id]
             code == stories[target_story_id].code
             new_task_id == NextTaskId(code)
             marker == HistoryEntry(generate_id("hist", 1), task.id,
                                    current_timestamp, "rehome",
                                    [new_task_id |-> new_task_id])
             new_task == Task(new_task_id, task.board_id, task.column_id,
                              target_story_id, task.title,
                              [description |-> task.description,
                               priority |-> task.priority,
                               estimate |-> task.estimate,
                               due_date |-> task.due_date,
                               tags |-> task.tags],
                              RehomedArchived(task),
                              RehomedHistory(task.history, marker))
         IN  /\ uid' = uid + 1
             /\ story_sequences' = Put(story_sequences, code, NextSequence(code))
             /\ Issue(code, new_task_id)
             \* self.tasks[new_task_id] = new_task; self.tasks.pop(task_id)
             /\ tasks' = Drop(Put(tasks, new_task_id, new_task), {task_id})
             /\ UNCHANGED <<boards, stories, comments, reviews, exported, clock>>
             /\ Save
             /\ last' = Called("rehome_task", "ok",
                               <<task_id, target_story_id>>, new_task_id)

\* an entry that says archived whichever way the flag goes
ArchiveEventAlways(archived) == "archived"

\* event_type="archived" if archived else "unarchived"
ArchiveEvent(archived) == IF archived THEN "archived" ELSE "unarchived"

archive_task(task_id, archived) ==
    IF task_id \notin DOMAIN tasks
    THEN Raises("archive_task", "KeyError", <<task_id, archived>>)
    ELSE LET entry == HistoryEntry(generate_id("hist", 1), task_id,
                                   current_timestamp,
                                   ArchiveEvent(archived),
                                   EmptyMap)
         IN  /\ uid' = uid + 1
             /\ tasks' = [tasks EXCEPT
                            ![task_id].archived = archived,
                            ![task_id].history = Append(@, entry)]
             /\ UNCHANGED <<boards, stories, comments, reviews,
                            story_sequences, exported, clock, issued>>
             /\ Save
             /\ last' = Called("archive_task", "ok", <<task_id, archived>>, "")

delete_task(task_id) ==
    /\ comments' = CommentsWithout({task_id})
    /\ UNCHANGED <<boards, stories, reviews, story_sequences, exported, uid,
                   clock, issued>>
    /\ IF task_id \in DOMAIN tasks
       THEN /\ tasks' = Drop(tasks, {task_id})
            /\ Save
            /\ last' = Called("delete_task", "ok", <<task_id>>, "")
       ELSE \* del self.tasks[task_id] raises after the comments went
            /\ UNCHANGED <<tasks, file>>
            /\ last' = Called("delete_task", "KeyError", <<task_id>>, "")

(***************************************************************************)
(* Comments                                                                *)
(***************************************************************************)
add_comment(task_id, author, body) ==
    LET comment_id == generate_id("cmt", 1)
    IN  /\ uid' = uid + 1
        /\ comments' = Put(comments, comment_id,
                           Comment(comment_id, task_id, current_timestamp,
                                   author, body))
        /\ UNCHANGED <<boards, stories, tasks, reviews, story_sequences,
                       exported, clock, issued>>
        /\ Save
        /\ last' = Called("add_comment", "ok", <<task_id, author, body>>,
                          comment_id)

\* an edit that logs the body it is about to store
LoggedNewBody(comment, new_body) == new_body

\* {"timestamp": current_timestamp(), "body": comment.body}
LoggedBody(comment, new_body) == comment.body

\* current_timestamp is read twice; elapsed seconds pass between the reads
edit_comment(comment_id, new_body, elapsed) ==
    IF comment_id \notin DOMAIN comments
    THEN Raises("edit_comment", "KeyError", <<comment_id, new_body>>)
    ELSE /\ clock' = clock + elapsed
         /\ comments' = [comments EXCEPT
               ![comment_id].edited_history =
                   Append(@, [timestamp |-> current_timestamp,
                              body |-> LoggedBody(comments[comment_id],
                                                  new_body)]),
               ![comment_id].body = new_body,
               ![comment_id].timestamp = clock']
         /\ UNCHANGED <<boards, stories, tasks, reviews, story_sequences,
                        exported, uid, issued>>
         /\ Save
         /\ last' = Called("edit_comment", "ok", <<comment_id, new_body>>, "")

delete_comment(comment_id) ==
    IF comment_id \notin DOMAIN comments
    THEN Raises("delete_comment", "KeyError", <<comment_id>>)
    ELSE /\ comments' = Drop(comments, {comment_id})
         /\ UNCHANGED <<boards, stories, tasks, reviews, story_sequences,
                        exported, uid, clock, issued>>
         /\ Save
         /\ last' = Called("delete_comment", "ok", <<comment_id>>, "")

(***************************************************************************)
(* Weekly reviews                                                          *)
(***************************************************************************)
create_weekly_review(board_ids, story_ids, start_date, end_date, summary, evidence) ==
    LET review_id == generate_id("review", 1)
    IN  /\ uid' = uid + 1
        /\ reviews' = Put(reviews, review_id,
                          WeeklyReview(review_id, board_ids, story_ids,
                                       start_date, end_date, summary, evidence))
        /\ UNCHANGED <<boards, stories, tasks, comments, story_sequences,
                       exported, clock, issued>>
        /\ Save
        /\ last' = Called("create_weekly_review", "ok", <<>>, review_id)

(***************************************************************************)
(* Query helpers                                                           *)
(***************************************************************************)
history_for_task(task_id) ==
    IF task_id \notin DOMAIN tasks
    THEN Raises("history_for_task", "KeyError", <<task_id>>)
    ELSE /\ last' = Called("history_for_task", "ok", <<task_id>>,
                           tasks[task_id].history)
         /\ UNCHANGED <<boards, stories, tasks, comments, reviews,
                        story_sequences, file, exported, uid, clock, issued>>

\* [task for task in self.tasks.values() if task.board_id == board_id and
\*  (include_archived or not task.archived)]; the order is not tracked
tasks_for_board(board_id, include_archived) ==
    {tasks[t] : t \in {u \in DOMAIN tasks :
                          /\ tasks[u].board_id = board_id
                          /\ (include_archived \/ ~tasks[u].archived)}}

tasks_for_story(story_id, include_archived) ==
    {tasks[t] : t \in {u \in DOMAIN tasks :
                          /\ tasks[u].story_id = story_id
                          /\ (include_archived \/ ~tasks[u].archived)}}

\* a listing that is left in the order of the dictionary
AnyOrder(s) == TRUE

\* comments.sort(key=lambda c: c.timestamp)
SortedByTimestamp(s) ==
    \A i, j \in DOMAIN s : i < j => s[i].timestamp <= s[j].timestamp

\* the orders a list of the elements of S can have
Listings(S) == {s \in [1..Cardinality(S) -> S] : Range(s) = S}

\* the sort is stable: comments of one timestamp stay in the order of the
\* dictionary, which the model does not track, so any order of them is taken
comments_for_task(task_id) ==
    \E s \in Listings({comments[c] : c \in {x \in DOMAIN comments :
                                               comments[x].task_id = task_id}}) :
        /\ SortedByTimestamp(s)
        /\ last' = Called("comments_for_task", "ok", <<task_id>>, s)
        /\ UNCHANGED <<boards, stories, tasks, comments, reviews,
                       story_sequences, file, exported, uid, clock, issued>>

(***************************************************************************)
(* The weekly summary of src/main.py: the projection handed to the plugin  *)
(* and the review stored from it.  A timestamp is                          *)
(* "YYYY-MM-DDTHH:MM:SSZ"; the model's clock counts instants, of which     *)
(* InstantsPerDay make a day, and timestamp[:10] is the day of an instant. *)
(***************************************************************************)
InstantsPerDay == 2
DateOf(timestamp) == timestamp \div InstantsPerDay
FormatDate(day) == "2026-01-0" \o ToString(day + 1)

\* start <= x.timestamp[:10] <= end
InRange(timestamp, start, end) ==
    start <= DateOf(timestamp) /\ DateOf(timestamp) <= end

SummaryTasks(board_id, start, end) ==
    {task \in tasks_for_board(board_id, TRUE) :
        \E i \in DOMAIN task.history :
            InRange(task.history[i].timestamp, start, end)}

SummaryHistory(board_id, start, end) ==
    UNION {{task.history[i] : i \in {j \in DOMAIN task.history :
                 InRange(task.history[j].timestamp, start, end)}} :
           task \in SummaryTasks(board_id, start, end)}

SummaryComments(board_id, start, end) ==
    UNION {{comments[c] : c \in {x \in DOMAIN comments :
                 /\ comments[x].task_id = task.id
                 /\ InRange(comments[x].timestamp, start, end)}} :
           task \in SummaryTasks(board_id, start, end)}

\* WeeklyReviewView._generate_summary; the plugin's text is not modelled
generate_summary(board_id, start, end) ==
    LET context == [start_date |-> FormatDate(start),
                    end_date |-> FormatDate(end),
                    tasks |-> SummaryTasks(board_id, start, end),
                    comments |-> SummaryComments(board_id, start, end),
                    history |-> SummaryHistory(board_id, start, end)]
        review_id == generate_id("review", 1)
        evidence == Enum({HistoryToDict(h) : h \in context.history})
                    \o Enum({CommentToDict(c) : c \in context.comments})
    IN  /\ uid' = uid + 1
        /\ reviews' = Put(reviews, review_id,
                          WeeklyReview(review_id, <<board_id>>,
                                       Enum({task.story_id : task \in context.tasks}),
                                       context.start_date, context.end_date,
                                       "summary", evidence))
        /\ UNCHANGED <<boards, stories, tasks, comments, story_sequences,
                       exported, clock, issued>>
        /\ Save
        /\ last' = Called("_generate_summary", "ok", <<board_id, start, end>>,
                          context)

(***************************************************************************)
(* Persistence                                                             *)
(***************************************************************************)
save ==
    /\ UNCHANGED <<boards, stories, tasks, comments, reviews, story_sequences,
                   exported, uid, clock, issued>>
    /\ Save
    /\ last' = Called("save", "ok", <<>>, "")

\* self._save(); output_path.write_text(self.path.read_text())
export_to ==
    /\ UNCHANGED <<boards, stories, tasks, comments, reviews, story_sequences,
                   uid, clock, issued>>
    /\ Save
    /\ exported' = file'
    /\ last' = Called("export_to", "ok", <<>>, "")

\* an import that does not look at the version
VersionIgnored(data) == TRUE

\* version = data.get("schema_version"); if version != "1.0": raise ValueError
VersionSupported(data) == data.schema_version = SchemaVersion

\* The lists of a document in the order _load_from_dict goes through them.
\* A document written with one of these names is whole JSON that has, at the
\* end of that list, a record without the key "id".
Sections == <<"boards", "stories", "tasks", "comments", "weekly_reviews">>

\* _load_from_dict up to x_data["id"] of that record, which raises KeyError:
\* the lists before it and the records before it in its list are merged
LoadUpTo(bs, ss, ts, cs, rs, seqs, doc, section) ==
    LET n == IndexIn(Sections, section)
        all == LoadFromDict(bs, ss, ts, cs, rs, seqs, doc)
        old == <<bs, ss, ts, cs, rs>>
    IN  <<all[1],
          IF n >= 2 THEN all[2] ELSE old[2],
          IF n >= 3 THEN all[3] ELSE old[3],
          IF n >= 4 THEN all[4] ELSE old[4],
          IF n >= 5 THEN all[5] ELSE old[5],
          seqs>>

import_from(merge) ==
    LET how == IF merge THEN "merge" ELSE "replace"
    IN  IF exported.written = "none"
        THEN Raises("import_from", "FileNotFoundError", <<how>>)
        ELSE IF exported.written \notin {"full"} \cup Range(Sections)
        THEN Raises("import_from", "JSONDecodeError", <<how>>)
        ELSE IF ~VersionSupported(exported.doc)
        THEN Raises("import_from", "ValueError", <<how>>)
        ELSE IF exported.written \in Range(Sections)
        THEN LET data == exported.doc
                 loaded ==
                     IF merge
                     THEN LoadUpTo(boards, stories, tasks, comments, reviews,
                                   story_sequences, data, exported.written)
                     ELSE \* the six collections are cleared first
                          LoadUpTo(EmptyMap, EmptyMap, EmptyMap, EmptyMap,
                                   EmptyMap, EmptyMap, data, exported.written)
             IN  /\ boards' = loaded[1]
                 /\ stories' = loaded[2]
                 /\ tasks' = loaded[3]
                 /\ comments' = loaded[4]
                 /\ reviews' = loaded[5]
                 /\ story_sequences' = loaded[6]
                 \* the error leaves import_from before self._save()
                 /\ UNCHANGED <<file, exported, uid, clock, issued>>
                 /\ last' = Called("import_from", "KeyError", <<how>>, "")
        ELSE LET data == exported.doc
                 loaded ==
                     IF merge
                     THEN LoadFromDict(boards, stories, tasks, comments,
                                       reviews, story_sequences, data)
                     ELSE \* the six collections are cleared first
                          LoadFromDict(EmptyMap, EmptyMap, EmptyMap, EmptyMap,
                                       EmptyMap, EmptyMap, data)
             IN  /\ boards' = loaded[1]
                 /\ stories' = loaded[2]
                 /\ tasks' = loaded[3]
                 /\ comments' = loaded[4]
                 /\ reviews' = loaded[5]
                 /\ story_sequences' = loaded[6]
                 /\ UNCHANGED <<exported, uid, clock, issued>>
                 /\ Save
                 /\ last' = Called("import_from", "ok", <<how>>, "")

\* KanbanDataStore(path) on a path where no file is: the empty store, saved.
\* The exported document, the IDs uuid4 has used and the clock are as before.
new_store ==
    /\ boards' = EmptyMap
    /\ stories' = EmptyMap
    /\ tasks' = EmptyMap
    /\ comments' = EmptyMap
    /\ reviews' = EmptyMap
    /\ story_sequences' = EmptyMap
    /\ issued' = <<>>
    /\ UNCHANGED <<exported, uid, clock>>
    /\ Save
    /\ last' = Called("__init__", "ok", <<"new">>, "")

(***************************************************************************)
(* save(), with the write of _save in its steps: write_text opens the      *)
(* file for writing, which truncates it, writes the text, part of which    *)
(* may reach the file before the rest, and closes the file.  The process   *)
(* may be killed between any two steps.                                    *)
(***************************************************************************)
Running == last.op # "crash" /\ last.status \notin {"open", "partial", "JSONDecodeError"}
Writing == last.op = "save" /\ last.status \in {"open", "partial"}
CurrentDoc == SaveDoc(boards, stories, tasks, comments, reviews, story_sequences)

save_open ==
    /\ Running
    /\ file' = BrokenFile("empty", CurrentDoc)
    /\ last' = Called("save", "open", <<>>, "")
    /\ UNCHANGED <<boards, stories, tasks, comments, reviews, story_sequences,
                   exported, uid, clock, issued>>

save_write_part ==
    /\ last.op = "save" /\ last.status = "open"
    /\ file' = BrokenFile("prefix", CurrentDoc)
    /\ last' = Called("save", "partial", <<>>, "")
    /\ UNCHANGED <<boards, stories, tasks, comments, reviews, story_sequences,
                   exported, uid, clock, issued>>

save_close ==
    /\ Writing
    /\ file' = FullFile(CurrentDoc)
    /\ last' = Called("save", "ok", <<>>, "")
    /\ UNCHANGED <<boards, stories, tasks, comments, reviews, story_sequences,
                   exported, uid, clock, issued>>

\* the process is killed; its memory is kept as it was, for comparison
crash ==
    /\ last.op # "crash"
    /\ last.status # "JSONDecodeError"
    /\ last' = Called("crash", IF Writing THEN "in write" ELSE "between calls",
                      <<>>, "")
    /\ UNCHANGED <<boards, stories, tasks, comments, reviews, story_sequences,
                   file, exported, uid, clock, issued>>

\* KanbanDataStore(path) after a crash: _load reads the file that is there
restart ==
    /\ last.op = "crash"
    /\ UNCHANGED <<file, exported, uid, clock, issued>>
    /\ IF file.written = "full"
       THEN LET loaded == Load(file.doc)
            IN  /\ boards' = loaded[1]
                /\ stories' = loaded[2]
                /\ tasks' = loaded[3]
                /\ comments' = loaded[4]
                /\ reviews' = loaded[5]
                /\ story_sequences' = loaded[6]
                /\ last' = Called("__init__", "ok", <<"restart">>, "")
       ELSE \* json.loads raises: no store is constructed
            /\ UNCHANGED <<boards, stories, tasks, comments, reviews,
                           story_sequences>>
            /\ last' = Called("__init__", "JSONDecodeError", <<"restart">>, "")

(***************************************************************************)
(* The environment: a document of another schema version is put where      *)
(* import_from reads, and time passes.                                     *)
(***************************************************************************)
OtherVersions == {"2.0"}

other_version_document(version) ==
    /\ exported.written = "full"
    /\ exported.doc.schema_version = SchemaVersion
    /\ exported' = [exported EXCEPT !.doc.schema_version = version]
    /\ last' = Called("other_version_document", "ok", <<version>>, "")
    /\ UNCHANGED <<boards, stories, tasks, comments, reviews, story_sequences,
                   file, uid, clock, issued>>

\* the exported document edited by hand: a record without "id" is put at
\* the end of one of its lists
malformed_document(section) ==
    /\ exported.written = "full"
    /\ exported' = [exported EXCEPT !.written = section]
    /\ last' = Called("malformed_document", "ok", <<section>>, "")
    /\ UNCHANGED <<boards, stories, tasks, comments, reviews, story_sequences,
                   file, uid, clock, issued>>

tick ==
    /\ clock' = clock + 1
    /\ last' = Called("tick", "ok", <<>>, "")
    /\ UNCHANGED <<boards, stories, tasks, comments, reviews, story_sequences,
                   file, exported, uid, issued>>

(***************************************************************************)
(* The arguments callers pass: IDs the store holds, as the views of        *)
(* src/main.py do, and a few values for each text field.                   *)
(***************************************************************************)
BoardIds == DOMAIN boards
StoryIds == DOMAIN stories
TaskIds == DOMAIN tasks
CommentIds == DOMAIN comments
ColumnIdsOf(b) == {boards[b].columns[i].id : i \in DOMAIN boards[b].columns}
AllColumnIds == UNION {ColumnIdsOf(b) : b \in BoardIds}
ColumnLists == {None, Some(<<"Todo">>)}
Rotated(b) ==      \* the board's column IDs with the last one moved to the front
    LET ids == [i \in DOMAIN boards[b].columns |-> boards[b].columns[i].id]
    IN  IF ids = <<>> THEN ids
        ELSE <<ids[Len(ids)]>> \o SubSeq(ids, 1, Len(ids) - 1)

CreateBoard(lists) == \E columns \in lists : create_board("Board", columns)
DeleteBoard == \E b \in BoardIds : delete_board(b)
AddColumn == \E b \in BoardIds : add_column(b, "Review")
RemoveColumn == \E b \in BoardIds : \E c \in ColumnIdsOf(b) : remove_column(b, c)
CreateStory == \E code \in Codes : create_story(code, "Story")
DeleteStory == \E s \in StoryIds : delete_story(s)
CreateTask == \E b \in BoardIds : \E c \in ColumnIdsOf(b) : \E s \in StoryIds :
                 create_task(b, c, s, "Task", NoKwargs)
MoveTask == \E t \in TaskIds : \E c \in AllColumnIds : move_task(t, c)
RehomeTask == \E t \in TaskIds : \E s \in StoryIds : rehome_task(t, s)
ArchiveTask == \E t \in TaskIds : archive_task(t, ~tasks[t].archived)
DeleteTask == \E t \in TaskIds : delete_task(t)
AddComment == \E t \in TaskIds : add_comment(t, "me", "first")
NextBody(comment) ==
    IF comment.edited_history = <<>> THEN "second" ELSE "third"
EditComment == \E c \in CommentIds :
                  /\ Len(comments[c].edited_history) < MaxEdits
                  /\ edit_comment(c, NextBody(comments[c]), 0)
CreateReview ==
    create_weekly_review(Enum(BoardIds), <<>>, "2026-01-01", "2026-01-07",
                         "summary", <<>>)
ImportFrom == \E merge \in BOOLEAN : import_from(merge)
OtherVersionDocument == \E v \in OtherVersions : other_version_document(v)

(***************************************************************************)
(* Spec: boards, columns, stories, tasks and comments through their        *)
(* lifecycle.                                                              *)
(***************************************************************************)
Next ==
    \/ uid < MaxUid /\ CreateBoard(ColumnLists) /\ UNCHANGED calls
    \/ DeleteBoard /\ UNCHANGED calls
    \/ uid < MaxUid /\ RemoveColumn /\ UNCHANGED calls
    \/ uid < MaxUid /\ CreateStory /\ UNCHANGED calls
    \/ DeleteStory /\ UNCHANGED calls
    \/ uid < MaxUid /\ CreateTask /\ UNCHANGED calls
    \/ uid < MaxUid /\ RehomeTask /\ UNCHANGED calls
    \/ DeleteTask /\ UNCHANGED calls
    \/ uid < MaxUid /\ AddComment /\ UNCHANGED calls

Spec == Init /\ [][Next]_vars

(***************************************************************************)
(* SpecCodec: a store whose snapshots are exported and imported.           *)
(***************************************************************************)
NextCodec ==
    \/ uid < MaxUidCodec /\ CreateBoard({Some(<<"Todo">>)}) /\ UNCHANGED calls
    \/ uid < MaxUidCodec /\ CreateStory /\ UNCHANGED calls
    \/ DeleteStory /\ UNCHANGED calls
    \/ uid < MaxUidCodec /\ CreateTask /\ UNCHANGED calls
    \/ uid < MaxUidCodec /\ RehomeTask /\ UNCHANGED calls
    \/ DeleteTask /\ UNCHANGED calls
    \/ uid < MaxUidCodec /\ AddComment /\ UNCHANGED calls
    \/ EditComment /\ UNCHANGED calls
    \/ uid < MaxUidCodec /\ CreateReview /\ UNCHANGED calls
    \/ export_to /\ UNCHANGED calls
    \/ ImportFrom /\ UNCHANGED calls
    \/ OtherVersionDocument /\ UNCHANGED calls
    \/ exported # NoFile /\ new_store /\ UNCHANGED calls

SpecCodec == Init /\ [][NextCodec]_vars

(***************************************************************************)
(* SpecAll: every mutating method of the store, a bounded number of calls. *)
(***************************************************************************)
MayCall == calls < MaxCalls
Counted == calls' = calls + 1

NextAll ==
    \/ MayCall /\ CreateBoard({Some(<<"Todo">>)}) /\ Counted
    \/ MayCall /\ (\E b \in BoardIds : boards[b].name # "Renamed" /\ rename_board(b, "Renamed")) /\ Counted
    \/ MayCall /\ (\E b \in BoardIds : archive_board(b, ~boards[b].archived)) /\ Counted
    \/ MayCall /\ DeleteBoard /\ Counted
    \/ MayCall /\ AddColumn /\ Counted
    \/ MayCall /\ RemoveColumn /\ Counted
    \/ MayCall /\ (\E b \in BoardIds : reorder_columns(b, Rotated(b))) /\ Counted
    \/ MayCall /\ CreateStory /\ Counted
    \/ MayCall /\ (\E s \in StoryIds : \E code \in Codes \ {stories[s].code} : update_story(s, [code |-> code])) /\ Counted
    \/ MayCall /\ (\E s \in StoryIds : /\ stories[s].title # "Retitled" /\ update_story(s, [title |-> "Retitled", status |-> "Active"])) /\ Counted
    \/ MayCall /\ (\E s \in StoryIds : archive_story(s, ~stories[s].archived)) /\ Counted
    \/ MayCall /\ DeleteStory /\ Counted
    \/ MayCall /\ CreateTask /\ Counted
    \/ MayCall /\ (\E t \in TaskIds : /\ tasks[t].title # "Retitled" /\ update_task(t, [title |-> "Retitled", color |-> "#ff0000", due_date |-> Some("2026-01-31")])) /\ Counted
    \/ MayCall /\ MoveTask /\ Counted
    \/ MayCall /\ RehomeTask /\ Counted
    \/ MayCall /\ ArchiveTask /\ Counted
    \/ MayCall /\ DeleteTask /\ Counted
    \/ MayCall /\ AddComment /\ Counted
    \/ MayCall /\ EditComment /\ Counted
    \/ MayCall /\ (\E c \in CommentIds : delete_comment(c)) /\ Counted
    \/ MayCall /\ CreateReview /\ Counted
    \/ MayCall /\ save /\ Counted
    \/ MayCall /\ export_to /\ Counted
    \/ MayCall /\ ImportFrom /\ Counted

SpecAll == Init /\ [][NextAll]_vars

(***************************************************************************)
(* SpecStale: a caller whose references may be stale.  Every method that   *)
(* takes an ID is called with the IDs the store holds and with one it      *)
(* does not hold; create_task and move_task also with a column ID that is  *)
(* on no board; update_task with patches of known and unknown names.       *)
(***************************************************************************)
AnyBoard == BoardIds \cup {Absent}
AnyStory == StoryIds \cup {Absent}
AnyTask == TaskIds \cup {Absent}
AnyComment == CommentIds \cup {Absent}
AnyColumn == AllColumnIds \cup {Absent}

TaskPatches ==
    {[title |-> "Retitled"],
     [color |-> "#ff0000"],
     [estimate |-> "3d", reviewer |-> "me"],
     [history |-> <<>>]}
    \cup {[column_id |-> c] : c \in AnyColumn}

StaleDeleteStory == \E s \in AnyStory : delete_story(s)
StaleCreateTask ==
    \E b \in AnyBoard : \E c \in AnyColumn : \E s \in AnyStory :
        create_task(b, c, s, "Task", NoKwargs)
StaleRehomeTask == \E t \in AnyTask : \E s \in AnyStory : rehome_task(t, s)
StaleDeleteTask == \E t \in AnyTask : delete_task(t)

MayCallStale == calls < MaxCallsStale

NextStale ==
    \/ MayCallStale /\ CreateBoard({Some(<<"Todo">>)}) /\ Counted
    \/ MayCallStale /\ CreateStory /\ Counted
    \/ MayCallStale /\ (\E b \in AnyBoard : rename_board(b, "Renamed")) /\ Counted
    \/ MayCallStale /\ (\E b \in AnyBoard : archive_board(b, TRUE)) /\ Counted
    \/ MayCallStale /\ (\E b \in AnyBoard : delete_board(b)) /\ Counted
    \/ MayCallStale /\ (\E b \in AnyBoard : add_column(b, "Review")) /\ Counted
    \/ MayCallStale /\ (\E b \in AnyBoard : \E c \in AnyColumn : remove_column(b, c)) /\ Counted
    \/ MayCallStale /\ (\E b \in AnyBoard : reorder_columns(b, IF b \in BoardIds THEN Rotated(b) ELSE <<>>)) /\ Counted
    \/ MayCallStale /\ (\E s \in AnyStory : update_story(s, [title |-> "Retitled"])) /\ Counted
    \/ MayCallStale /\ (\E s \in AnyStory : archive_story(s, TRUE)) /\ Counted
    \/ MayCallStale /\ StaleDeleteStory /\ Counted
    \/ MayCallStale /\ StaleCreateTask /\ Counted
    \/ MayCallStale /\ (\E t \in AnyTask : \E patch \in TaskPatches : update_task(t, patch)) /\ Counted
    \/ MayCallStale /\ (\E t \in AnyTask : \E c \in AnyColumn : move_task(t, c)) /\ Counted
    \/ MayCallStale /\ StaleRehomeTask /\ Counted
    \/ MayCallStale /\ (\E t \in AnyTask : \E flag \in BOOLEAN : archive_task(t, flag)) /\ Counted
    \/ MayCallStale /\ StaleDeleteTask /\ Counted
    \/ MayCallStale /\ (\E t \in AnyTask : add_comment(t, "me", "first")) /\ Counted
    \/ MayCallStale /\ (\E c \in AnyComment : edit_comment(c, "second", 0)) /\ Counted
    \/ MayCallStale /\ (\E c \in AnyComment : delete_comment(c)) /\ Counted
    \/ MayCallStale /\ (\E t \in AnyTask : history_for_task(t)) /\ Counted
    \/ MayCallStale /\ export_to /\ Counted
    \/ MayCallStale /\ ImportFrom /\ Counted

SpecStale == Init /\ [][NextStale]_vars
(***************************************************************************)
(* SpecAlloc: the allocation of task IDs, with calls that fail, and with   *)
(* snapshots carried from one store to a new one.                          *)
(***************************************************************************)
NextAlloc ==
    \/ uid < MaxUidAlloc /\ CreateStory /\ UNCHANGED calls
    \/ (\E s \in StoryIds : \E code \in Codes \ {stories[s].code} :
           update_story(s, [code |-> code])) /\ UNCHANGED calls
    \/ uid < MaxUidAlloc /\ StaleCreateTask /\ UNCHANGED calls
    \/ uid < MaxUidAlloc /\ StaleRehomeTask /\ UNCHANGED calls
    \/ StaleDeleteTask /\ UNCHANGED calls
    \/ StaleDeleteStory /\ UNCHANGED calls
    \/ export_to /\ UNCHANGED calls
    \/ ImportFrom /\ UNCHANGED calls
    \/ exported # NoFile /\ new_store /\ UNCHANGED calls

SpecAlloc == Init /\ [][NextAlloc]_vars

(***************************************************************************)
(* SpecTimed: tasks and comments while the clock advances, with the        *)
(* queries and the weekly summary.                                         *)
(***************************************************************************)
Days == 0..DateOf(MaxClock)

NextTimed ==
    \/ (clock < MaxClock /\ tick) /\ UNCHANGED calls
    \/ uid < MaxUidTimed /\ CreateBoard({Some(<<"Todo">>)}) /\ UNCHANGED calls
    \/ uid < MaxUidTimed /\ CreateStory /\ UNCHANGED calls
    \/ uid < MaxUidTimed /\ AddColumn /\ UNCHANGED calls
    \/ uid < MaxUidTimed /\ RemoveColumn /\ UNCHANGED calls
    \/ uid < MaxUidTimed /\ CreateTask /\ UNCHANGED calls
    \/ uid < MaxUidTimed /\ MoveTask /\ UNCHANGED calls
    \/ uid < MaxUidTimed /\ ArchiveTask /\ UNCHANGED calls
    \/ uid < MaxUidTimed /\ RehomeTask /\ UNCHANGED calls
    \/ uid < MaxUidTimed /\ AddComment /\ UNCHANGED calls
    \/ (\E c \in CommentIds : \E elapsed \in {0, 1} :
           /\ clock + elapsed <= MaxClock
           /\ Len(comments[c].edited_history) < MaxEdits
           /\ edit_comment(c, NextBody(comments[c]), elapsed)) /\ UNCHANGED calls
    \/ (\E t \in AnyTask : comments_for_task(t)) /\ UNCHANGED calls
    \/ uid < MaxUidTimed
          /\ (\E b \in BoardIds : \E start \in Days : \E end \in Days :
                 start <= end /\ generate_summary(b, start, end))
          /\ UNCHANGED calls

SpecTimed == Init /\ [][NextTimed]_vars

(***************************************************************************)
(* SpecMalformed: imports of exported documents, some of which were given  *)
(* a record that _load_from_dict cannot read.                              *)
(***************************************************************************)
NextMalformed ==
    \/ uid < MaxUidMalformed /\ CreateBoard({Some(<<"Todo">>)}) /\ UNCHANGED calls
    \/ uid < MaxUidMalformed /\ CreateStory /\ UNCHANGED calls
    \/ uid < MaxUidMalformed /\ CreateTask /\ UNCHANGED calls
    \/ uid < MaxUidMalformed /\ AddComment /\ UNCHANGED calls
    \/ DeleteTask /\ UNCHANGED calls
    \/ export_to /\ UNCHANGED calls
    \/ (\E section \in Range(Sections) : malformed_document(section))
          /\ UNCHANGED calls
    \/ OtherVersionDocument /\ UNCHANGED calls
    \/ ImportFrom /\ UNCHANGED calls

SpecMalformed == Init /\ [][NextMalformed]_vars

(***************************************************************************)
(* SpecColumns: the columns of boards reordered with any short list of     *)
(* column IDs: IDs left out, repeated, and IDs the board does not have.    *)
(***************************************************************************)
ColumnIdLists(b) ==
    UNION {[1..n -> ColumnIdsOf(b) \cup {Absent}] : n \in 0..MaxReorder}

NextColumns ==
    \/ uid < MaxUidColumns /\ CreateBoard({None}) /\ UNCHANGED calls
    \/ (\E b \in BoardIds : \E ids \in ColumnIdLists(b) : reorder_columns(b, ids)) /\ UNCHANGED calls
    \/ uid < MaxUidColumns /\ CreateStory /\ UNCHANGED calls
    \/ uid < MaxUidColumns /\ CreateTask /\ UNCHANGED calls

SpecColumns == Init /\ [][NextColumns]_vars

(***************************************************************************)
(* SpecCrash: a store whose process may be killed, also inside a write,    *)
(* and is started again on the same file.                                  *)
(***************************************************************************)
NextCrash ==
    \/ Running /\ uid < MaxUidCrash /\ CreateBoard(ColumnLists) /\ UNCHANGED calls
    \/ Running /\ uid < MaxUidCrash /\ CreateStory /\ UNCHANGED calls
    \/ Running /\ uid < MaxUidCrash /\ CreateTask /\ UNCHANGED calls
    \/ Running /\ DeleteTask /\ UNCHANGED calls
    \/ save_open /\ UNCHANGED calls
    \/ save_write_part /\ UNCHANGED calls
    \/ save_close /\ UNCHANGED calls
    \/ crash /\ UNCHANGED calls
    \/ restart /\ UNCHANGED calls

SpecCrash == Init /\ [][NextCrash]_vars

(***************************************************************************)
(* What the claims speak of.                                               *)
(***************************************************************************)
Returned(op) == last'.op = op /\ last'.status = "ok"
Did(op) == last.op = op /\ last.status = "ok"

\* the number the latest issue under the code had, 0 when there was none
LastNumber(code) ==
    LET under == {i \in DOMAIN issued : issued[i].code = code}
    IN  IF under = {} THEN 0
        ELSE issued[CHOOSE i \in under : \A j \in under : j <= i].number

IsPrefix(s, t) == Len(s) <= Len(t) /\ SubSeq(t, 1, Len(s)) = s

\* C1: every create_task under a story of code C returns the ID C-n with n
\* one more than the number of the latest ID issued under C (1 for the
\* first), an ID never issued before; deleted tasks do not lower it.
C1_SequentialTaskIds ==
    [][Returned("create_task") =>
         LET code == stories[last'.args[3]].code
         IN  /\ last'.ret = FormatTaskId(code, LastNumber(code) + 1)
             /\ \A i \in DOMAIN issued : issued[i].id # last'.ret
             /\ last'.ret \in DOMAIN tasks'
             /\ tasks'[last'.ret].id = last'.ret]_vars

\* create ABC-001, create ABC-002, delete ABC-001, and the next is ABC-003
C1_Witness ==
    /\ Did("create_task")
    /\ last.ret = "ABC-003"
    /\ "ABC-001" \notin DOMAIN tasks
    /\ "ABC-002" \in DOMAIN tasks

\* C2: no task ID is issued twice, whatever calls (story deletion and
\* re-creation, rehome, task deletion, import with and without merge) come
\* between the two issues.
C2_TaskIdNeverReissued ==
    \A i, j \in DOMAIN issued : i # j => issued[i].id # issued[j].id

\* C3: after rehome_task(t, s) returns n, the history of n is the history t
\* had, in order, followed by one rehome entry whose payload names n; t is
\* no key of the task table and n is.
C3_RehomeKeepsHistory ==
    [][Returned("rehome_task") =>
         LET t == last'.args[1]
             n == last'.ret
             before == tasks[t].history
         IN  /\ n \in DOMAIN tasks'
             /\ t \notin DOMAIN tasks'
             /\ tasks'[n].id = n
             /\ Len(tasks'[n].history) = Len(before) + 1
             /\ IsPrefix(before, tasks'[n].history)
             /\ tasks'[n].history[Len(before) + 1].event_type = "rehome"
             /\ tasks'[n].history[Len(before) + 1].payload = [new_task_id |-> n]]_vars

\* a task rehomed for the second time: two entries before the new marker
C3_Witness ==
    /\ Did("rehome_task")
    /\ last.ret \in DOMAIN tasks
    /\ Len(tasks[last.ret].history) >= 3
    /\ tasks[last.ret].history[1].event_type = "created"

\* C4: delete_board(b) removes b, the tasks whose board_id is b and the
\* comments on those tasks, and nothing else: stories, sequence counters,
\* reviews, other boards, other tasks and their comments stay as they were.
C4_DeleteBoardCascade ==
    [][Returned("delete_board") =>
         LET b == last'.args[1]
             gone == {t \in DOMAIN tasks : tasks[t].board_id = b}
         IN  /\ DOMAIN boards' = DOMAIN boards \ {b}
             /\ \A x \in DOMAIN boards' : boards'[x] = boards[x]
             /\ DOMAIN tasks' = DOMAIN tasks \ gone
             /\ \A t \in DOMAIN tasks' : tasks'[t] = tasks[t]
             /\ DOMAIN comments' =
                   {c \in DOMAIN comments : comments[c].task_id \notin gone}
             /\ \A c \in DOMAIN comments' : comments'[c] = comments[c]
             /\ stories' = stories
             /\ story_sequences' = story_sequences
             /\ reviews' = reviews]_vars

\* a board was deleted and a commented task of another board is still there,
\* with its story
C4_Witness ==
    /\ Did("delete_board")
    /\ \E c \in DOMAIN comments :
          /\ comments[c].task_id \in DOMAIN tasks
          /\ tasks[comments[c].task_id].board_id \in DOMAIN boards
          /\ tasks[comments[c].task_id].story_id \in DOMAIN stories

\* C5: import_from on a document whose schema_version is not "1.0" raises,
\* with merge and without, and the six collections and the backing file are
\* as before the call.
C5_VersionMismatchLeavesStore ==
    [][(/\ last'.op = "import_from"
        /\ exported.written = "full"
        /\ exported.doc.schema_version # "1.0") =>
         /\ last'.status = "ValueError"
         /\ mem' = mem
         /\ file' = file]_vars

\* a replacing import of a 2.0 document failed on a store that holds a task
C5_Witness ==
    /\ last.op = "import_from"
    /\ last.status = "ValueError"
    /\ last.args = <<"replace">>
    /\ exported.doc.schema_version = "2.0"
    /\ DOMAIN tasks # {}
    /\ exported.doc.tasks = {}

\* what a merge makes of one collection: every local entity as it was, and
\* every incoming record of a new ID added
MergedInto(local, after, list, written) ==
    /\ DOMAIN after = DOMAIN local \cup {d.id : d \in list}
    /\ \A i \in DOMAIN local : after[i] = local[i]
    /\ \A i \in DOMAIN after \ DOMAIN local : written[i] \in list

\* C6: import_from with merge=True changes no entity whose ID the store
\* holds, adds every incoming entity of a new ID, and sets the counter of
\* every incoming code to the larger of the local value (0 when absent) and
\* the incoming value.
C6_MergeKeepsLocal ==
    [][(Returned("import_from") /\ last'.args = <<"merge">>) =>
         LET doc == exported.doc
         IN  /\ MergedInto(boards, boards', doc.boards,
                          [i \in DOMAIN boards' |-> BoardToDict(boards'[i])])
             /\ MergedInto(stories, stories', doc.stories,
                          [i \in DOMAIN stories' |-> StoryToDict(stories'[i])])
             /\ MergedInto(tasks, tasks', doc.tasks,
                          [i \in DOMAIN tasks' |-> TaskToDict(tasks'[i])])
             /\ MergedInto(comments, comments', doc.comments,
                          [i \in DOMAIN comments' |-> CommentToDict(comments'[i])])
             /\ MergedInto(reviews, reviews', doc.weekly_reviews,
                          [i \in DOMAIN reviews' |-> ReviewToDict(reviews'[i])])
             /\ DOMAIN story_sequences' =
                   DOMAIN story_sequences \cup DOMAIN doc.story_sequences
             /\ \A c \in DOMAIN doc.story_sequences :
                   story_sequences'[c] =
                      Max(Get(story_sequences, c, 0), doc.story_sequences[c])
             /\ \A c \in DOMAIN story_sequences \ DOMAIN doc.story_sequences :
                   story_sequences'[c] = story_sequences[c]]_vars

\* a merge met a comment the store had edited since the export, and kept
\* the local body
C6_Witness ==
    /\ Did("import_from")
    /\ last.args = <<"merge">>
    /\ \E c \in DOMAIN comments : \E d \in exported.doc.comments :
          d.id = c /\ d.body # comments[c].body

C8_RemoveColumnReassigns ==
    [][(Returned("remove_column") /\ last'.args[2] \in ColumnIdsOf(last'.args[1])) =>
         LET b == last'.args[1]
             c == last'.args[2]
             left == boards'[b].columns
         IN  /\ left = SelectSeq(boards[b].columns, LAMBDA x : x.id # c)
             /\ DOMAIN tasks' = DOMAIN tasks
             /\ \A t \in DOMAIN tasks :
                   IF tasks[t].column_id = c
                   THEN /\ tasks'[t].column_id =
                              (IF Len(left) = 0 THEN "" ELSE left[1].id)
                        /\ Len(tasks'[t].history) = Len(tasks[t].history) + 1
                        /\ IsPrefix(tasks[t].history, tasks'[t].history)
                        /\ LET e == tasks'[t].history[Len(tasks'[t].history)]
                           IN  /\ e.event_type = "column-removed"
                               /\ e.payload = [column_id |-> c]
                        /\ [tasks'[t] EXCEPT !.column_id = c,
                                             !.history = tasks[t].history]
                              = tasks[t]
                   ELSE tasks'[t] = tasks[t]]_vars

\* a column of a board with more columns was removed and its task sits in
\* the first column left
C8_Witness ==
    /\ Did("remove_column")
    /\ \E t \in DOMAIN tasks :
          LET h == tasks[t].history
          IN  /\ h[Len(h)].event_type = "column-removed"
              /\ h[Len(h)].payload = [column_id |-> last.args[2]]
              /\ Len(boards[last.args[1]].columns) >= 2
              /\ tasks[t].column_id = boards[last.args[1]].columns[1].id

\* C9: after every call that returns, the backing file holds a whole document
\* and a store constructed on it has the boards, stories, tasks, comments,
\* reviews and sequence counters of the store in memory.
C9_FileMatchesMemory ==
    /\ file.written = "full"
    /\ Load(file.doc) = mem

\* a call that changed a board and a task at once has returned
C9_Witness ==
    /\ Did("remove_column")
    /\ \E t \in DOMAIN tasks :
          tasks[t].history[Len(tasks[t].history)].event_type = "column-removed"

\* C10: when the process is killed, also inside the write of the file, the
\* backing file holds a whole snapshot (with save(), the one before and the
\* one after are the same: the store in memory), and the store started again
\* on it loads.
C10_CrashLeavesWholeSnapshot ==
    /\ last.op = "crash" => (file.written = "full" /\ Load(file.doc) = mem)
    /\ last.op = "__init__" => last.status = "ok"

\* C11: a task's history only grows by appending: in every step, a task that
\* is there before and after has its earlier history as a prefix of the later
\* one, and so has the task rehome_task carries to a new ID.
C11_HistoryAppendOnly ==
    [][/\ \A t \in DOMAIN tasks \cap DOMAIN tasks' :
             IsPrefix(tasks[t].history, tasks'[t].history)
       /\ Returned("rehome_task") =>
             IsPrefix(tasks[last'.args[1]].history, tasks'[last'.ret].history)]_vars

\* C12: the sequence counter of a story code never decreases and, once it
\* exists, is never removed.
C12_CounterNeverDecreases ==
    [][\A c \in DOMAIN story_sequences :
           /\ c \in DOMAIN story_sequences'
           /\ story_sequences'[c] >= story_sequences[c]]_vars

\* the call of the step was given the ID of a board, story, task or comment
\* that the store does not hold
GivenAbsentId ==
    LET op == last'.op
        a == last'.args
    IN  \/ /\ op \in {"rename_board", "archive_board", "delete_board",
                      "add_column", "remove_column", "reorder_columns"}
           /\ a[1] \notin DOMAIN boards
        \/ /\ op \in {"update_story", "archive_story", "delete_story"}
           /\ a[1] \notin DOMAIN stories
        \/ /\ op = "create_task"
           /\ (a[1] \notin DOMAIN boards \/ a[3] \notin DOMAIN stories)
        \/ /\ op \in {"update_task", "move_task", "rehome_task", "archive_task",
                      "delete_task", "add_comment", "history_for_task"}
           /\ a[1] \notin DOMAIN tasks
        \/ /\ op \in {"edit_comment", "delete_comment"}
           /\ a[1] \notin DOMAIN comments

\* C13: every call that is given the ID of a board, story, task or comment
\* the store does not hold fails with the lookup error (KeyError) and creates
\* no board, story, task, comment or review.
C13_AbsentIdRaises ==
    [][GivenAbsentId =>
         /\ last'.status = "KeyError"
         /\ DOMAIN boards' \subseteq DOMAIN boards
         /\ DOMAIN stories' \subseteq DOMAIN stories
         /\ DOMAIN tasks' \subseteq DOMAIN tasks
         /\ DOMAIN comments' \subseteq DOMAIN comments
         /\ DOMAIN reviews' \subseteq DOMAIN reviews]_vars

\* C14: create_task and move_task called with a column ID that is on no
\* board, and create_task and rehome_task called with a story ID the store
\* does not hold, leave no task holding that reference that did not hold it
\* before.
C14_ReferencesExistWhenAssigned ==
    [][LET op == last'.op
           a == last'.args
       IN  /\ (op \in {"create_task", "move_task"} /\ a[2] \notin AllColumnIds) =>
                 \A t \in DOMAIN tasks' :
                     tasks'[t].column_id = a[2] =>
                        (t \in DOMAIN tasks /\ tasks[t].column_id = a[2])
           /\ (op = "create_task" /\ a[3] \notin DOMAIN stories) =>
                 \A t \in DOMAIN tasks' :
                     tasks'[t].story_id = a[3] =>
                        (t \in DOMAIN tasks /\ tasks[t].story_id = a[3])
           /\ (op = "rehome_task" /\ a[2] \notin DOMAIN stories) =>
                 \A t \in DOMAIN tasks' :
                     tasks'[t].story_id = a[2] =>
                        (t \in DOMAIN tasks /\ tasks[t].story_id = a[2])]_vars

\* C15: move_task(t, c) on a task the store holds: when c is the column the
\* task is in, nothing changes; otherwise column_id becomes c, the history
\* gains exactly one column-moved entry with payload {column_id: c}, and no
\* other field of the task and no other entity changes.
C15_MoveTask ==
    [][(last'.op = "move_task" /\ last'.args[1] \in DOMAIN tasks) =>
         LET t == last'.args[1]
             c == last'.args[2]
             old == tasks[t]
         IN  /\ last'.status = "ok"
             /\ IF old.column_id = c
                THEN mem' = mem /\ file' = file
                ELSE /\ DOMAIN tasks' = DOMAIN tasks
                     /\ tasks'[t].column_id = c
                     /\ Len(tasks'[t].history) = Len(old.history) + 1
                     /\ IsPrefix(old.history, tasks'[t].history)
                     /\ LET e == tasks'[t].history[Len(old.history) + 1]
                        IN  /\ e.event_type = "column-moved"
                            /\ e.payload = [column_id |-> c]
                     /\ [tasks'[t] EXCEPT !.column_id = old.column_id,
                                          !.history = old.history] = old
                     /\ \A u \in DOMAIN tasks \ {t} : tasks'[u] = tasks[u]
                     /\ boards' = boards
                     /\ stories' = stories
                     /\ comments' = comments
                     /\ reviews' = reviews
                     /\ story_sequences' = story_sequences]_vars

\* a created task was moved to another column and is in it
C15_Witness ==
    /\ Did("move_task")
    /\ last.args[1] \in DOMAIN tasks
    /\ LET h == tasks[last.args[1]].history
       IN  /\ Len(h) = 2
           /\ h[2].event_type = "column-moved"
           /\ h[2].payload = [column_id |-> last.args[2]]
           /\ h[1].payload.column_id # last.args[2]
    /\ tasks[last.args[1]].column_id = last.args[2]

\* C16: in every step in which the column_id of a task changes, the history
\* of that task gains a column-moved or column-removed entry.
C16_ColumnChangeRecorded ==
    [][\A t \in DOMAIN tasks \cap DOMAIN tasks' :
           tasks'[t].column_id # tasks[t].column_id =>
              /\ Len(tasks'[t].history) > Len(tasks[t].history)
              /\ tasks'[t].history[Len(tasks'[t].history)].event_type
                    \in {"column-moved", "column-removed"}]_vars

\* the fields of a Task that a patch may set, as the data model lists them
TaskModelFields ==
    {"board_id", "column_id", "story_id", "title", "description", "color",
     "priority", "estimate", "due_date", "tags", "archived"}

\* C17: update_task(t, patch) on a task the store holds sets every patch
\* entry whose name is a field of the Task data model (the override color
\* among them), ignores every other name without raising, appends no
\* history entry, and changes no other field, task, board, story, comment,
\* review or sequence counter.
C17_UpdateTaskPatch ==
    [][(last'.op = "update_task" /\ last'.args[1] \in DOMAIN tasks) =>
         LET t == last'.args[1]
             patch == last'.args[2]
         IN  /\ last'.status = "ok"
             /\ DOMAIN tasks' = DOMAIN tasks
             /\ \A f \in DOMAIN patch \cap TaskModelFields :
                   /\ f \in DOMAIN tasks'[t]
                   /\ tasks'[t][f] = patch[f]
             /\ \A f \in DOMAIN tasks[t] \ DOMAIN patch :
                   /\ f \in DOMAIN tasks'[t]
                   /\ tasks'[t][f] = tasks[t][f]
             /\ "history" \notin DOMAIN patch =>
                   tasks'[t].history = tasks[t].history
             /\ \A u \in DOMAIN tasks \ {t} : tasks'[u] = tasks[u]
             /\ boards' = boards
             /\ stories' = stories
             /\ comments' = comments
             /\ reviews' = reviews
             /\ story_sequences' = story_sequences]_vars

\* the step raised the counter of code c and an operation that inserted the
\* task of the new number made it
Consumed(c) ==
    LET id == FormatTaskId(c, story_sequences'[c])
    IN  /\ last'.op \in {"create_task", "rehome_task"}
        /\ last'.status = "ok"
        /\ story_sequences'[c] = Get(story_sequences, c, 0) + 1
        /\ last'.ret = id
        /\ id \in DOMAIN tasks'
        /\ tasks'[id].id = id

FailedAllocationKeepsCounters ==
    (last'.op \in {"create_task", "rehome_task"} /\ last'.status # "ok") =>
        story_sequences' = story_sequences

\* C18 as stated: every increment of a code's counter happens in a
\* create_task or rehome_task that inserts the task of exactly that number,
\* and a create_task or rehome_task that fails leaves every counter as it was.
C18_EveryIncrementConsumed ==
    [][/\ \A c \in DOMAIN story_sequences' :
             story_sequences'[c] > Get(story_sequences, c, 0) => Consumed(c)
       /\ FailedAllocationKeepsCounters]_vars

\* C18, amended: every increment of a code's counter made by a call other
\* than import_from happens in a create_task or rehome_task that inserts the
\* task of exactly that number, and a create_task or rehome_task that fails
\* leaves every counter as it was.
C18_AllocationsConsumed ==
    [][/\ last'.op # "import_from" =>
             \A c \in DOMAIN story_sequences' :
                 story_sequences'[c] > Get(story_sequences, c, 0) => Consumed(c)
       /\ FailedAllocationKeepsCounters]_vars

\* a rehome_task of a held task to a story the store does not hold failed,
\* and the counter is at the number of the task allocated before
C18_Witness ==
    /\ last.op = "rehome_task"
    /\ last.status = "KeyError"
    /\ last.args[1] \in DOMAIN tasks
    /\ last.args[2] \notin DOMAIN stories
    /\ \E c \in DOMAIN story_sequences :
          /\ story_sequences[c] = 1
          /\ last.args[1] = FormatTaskId(c, 1)

\* C19: delete_story(s) on a story the store holds removes s, the tasks whose
\* story_id is s and the comments on those tasks; boards, other stories, the
\* tasks of other stories with their comments, and every sequence counter,
\* the one of s's code included, are as before.
C19_DeleteStoryCascade ==
    [][Returned("delete_story") =>
         LET s == last'.args[1]
             gone == {t \in DOMAIN tasks : tasks[t].story_id = s}
         IN  /\ DOMAIN stories' = DOMAIN stories \ {s}
             /\ \A x \in DOMAIN stories' : stories'[x] = stories[x]
             /\ DOMAIN tasks' = DOMAIN tasks \ gone
             /\ \A t \in DOMAIN tasks' : tasks'[t] = tasks[t]
             /\ DOMAIN comments' =
                   {c \in DOMAIN comments : comments[c].task_id \notin gone}
             /\ \A c \in DOMAIN comments' : comments'[c] = comments[c]
             /\ boards' = boards
             /\ story_sequences' = story_sequences
             /\ stories[s].code \in DOMAIN story_sequences']_vars

\* a story that had a task was deleted: its code has a counter above 0 and
\* no story; a commented task of another story is still there
C19_Witness ==
    /\ Did("delete_story")
    /\ \E code \in DOMAIN story_sequences :
          /\ story_sequences[code] >= 1
          /\ \A s \in DOMAIN stories : stories[s].code # code
    /\ \E c \in DOMAIN comments :
          /\ comments[c].task_id \in DOMAIN tasks
          /\ tasks[comments[c].task_id].story_id \in DOMAIN stories

\* C20: delete_task(t) on a task the store holds removes t and exactly the
\* comments whose task_id is t; no history entry is appended anywhere, and
\* every other task, the comments of other tasks, the boards, the stories and
\* the sequence counters are as before.
C20_DeleteTaskCascade ==
    [][Returned("delete_task") =>
         LET t == last'.args[1]
         IN  /\ DOMAIN tasks' = DOMAIN tasks \ {t}
             /\ \A u \in DOMAIN tasks' : tasks'[u] = tasks[u]
             /\ DOMAIN comments' =
                   {c \in DOMAIN comments : comments[c].task_id # t}
             /\ \A c \in DOMAIN comments' : comments'[c] = comments[c]
             /\ boards' = boards
             /\ stories' = stories
             /\ story_sequences' = story_sequences]_vars

\* a task was deleted; of the comments made, those of another task are left
\* and none of the deleted task
C20_Witness ==
    /\ Did("delete_task")
    /\ last.args[1] \notin DOMAIN tasks
    /\ DOMAIN comments # {}
    /\ \A c \in DOMAIN comments :
          /\ comments[c].task_id # last.args[1]
          /\ comments[c].task_id \in DOMAIN tasks
    /\ uid > Cardinality(DOMAIN comments) + Cardinality(DOMAIN stories)
              + Cardinality(DOMAIN boards) + Cardinality(AllColumnIds)
              + Cardinality(UNION {Range(tasks[u].history) : u \in DOMAIN tasks})

\* C21: edit_comment(c, new_body) appends to the edit log one entry holding
\* the body and the timestamp the comment had before the edit, sets the body
\* to new_body and the timestamp to the time of the edit.
C21_EditCommentLogsPrevious ==
    [][Returned("edit_comment") =>
         LET c == last'.args[1]
             old == comments[c]
         IN  /\ comments'[c].edited_history =
                   Append(old.edited_history,
                          [timestamp |-> old.timestamp, body |-> old.body])
             /\ comments'[c].body = last'.args[2]
             /\ clock <= comments'[c].timestamp
             /\ comments'[c].timestamp <= clock']_vars

\* the step keeps the edit log of comment c, or is the edit_comment that
\* appends the body c had
LogKeptOrAppended(c) ==
    IF Returned("edit_comment") /\ last'.args[1] = c
    THEN /\ Len(comments'[c].edited_history) = Len(comments[c].edited_history) + 1
         /\ IsPrefix(comments[c].edited_history, comments'[c].edited_history)
         /\ comments'[c].edited_history[Len(comments'[c].edited_history)].body
               = comments[c].body
         /\ comments'[c].body = last'.args[2]
    ELSE /\ comments'[c].edited_history = comments[c].edited_history
         /\ comments'[c].body = comments[c].body

NewCommentHasEmptyLog ==
    Returned("add_comment") =>
        /\ last'.ret \in DOMAIN comments'
        /\ comments'[last'.ret].edited_history = <<>>
        /\ comments'[last'.ret].body = last'.args[3]

\* C22 as stated: a comment starts with an empty edit log, every
\* edit_comment appends the body the comment had and sets the new one, and
\* no other call changes the log or the body of a comment that stays.
C22_EditLogAppendOnly ==
    [][/\ NewCommentHasEmptyLog
       /\ \A c \in DOMAIN comments \cap DOMAIN comments' : LogKeptOrAppended(c)]_vars

\* C22, amended: as above for every call other than import_from without
\* merge, which replaces each comment by the record of the document.
C22_EditLogAppendOnlyButReplace ==
    [][/\ NewCommentHasEmptyLog
       /\ (last'.op = "import_from" /\ last'.args = <<"replace">>)
          \/ \A c \in DOMAIN comments \cap DOMAIN comments' : LogKeptOrAppended(c)]_vars

\* a comment created as "first" was edited to "second" and to "third"
C22_Witness ==
    /\ Did("edit_comment")
    /\ LET c == comments[last.args[1]]
       IN  /\ Len(c.edited_history) = 2
           /\ c.edited_history[1].body = "first"
           /\ c.edited_history[2].body = "second"
           /\ c.body = "third"

\* the step leaves a counter for the code: 0 if there was none, the value it
\* had otherwise; the counters of the other codes are as they were
CounterEnsured(code) ==
    /\ DOMAIN story_sequences' = DOMAIN story_sequences \cup {code}
    /\ story_sequences'[code] =
          (IF code \in DOMAIN story_sequences THEN story_sequences[code] ELSE 0)
    /\ \A c \in DOMAIN story_sequences : story_sequences'[c] = story_sequences[c]

\* C23: after create_story(code, ...) and after an update_story that sets
\* the code, a counter exists for the code, 0 if none existed and unchanged
\* otherwise; delete_story leaves the counters, so a story created again
\* under the code finds the counter where it was.
C23_CounterEnsuredNeverReset ==
    [][/\ Returned("create_story") => CounterEnsured(last'.args[1])
       /\ (Returned("update_story") /\ "code" \in DOMAIN last'.args[2]) =>
             CounterEnsured(last'.args[2].code)
       /\ Returned("delete_story") => story_sequences' = story_sequences]_vars

\* a story was created under a code whose earlier story was deleted with
\* its task: the counter is still at the number of that task
C23_Witness ==
    /\ Did("create_story")
    /\ story_sequences[last.args[1]] >= 1
    /\ \A s \in DOMAIN stories : stories[s].code = last.args[1] => s = last.ret
    /\ \A t \in DOMAIN tasks : tasks[t].story_id # last.ret

\* C24: reorder_columns(b, ids) makes b's column sequence the caller's ids
\* restricted to the IDs of columns b has, in the caller's order, each
\* standing for b's column of that ID; IDs b does not have are dropped
\* without an error, and no task and no other board is changed.
C24_ReorderColumns ==
    [][(last'.op = "reorder_columns" /\ last'.args[1] \in DOMAIN boards) =>
         LET b == last'.args[1]
             ids == last'.args[2]
             before == boards[b].columns
             known == {before[i].id : i \in DOMAIN before}
             kept == SelectSeq(ids, LAMBDA x : x \in known)
             after == boards'[b].columns
         IN  /\ last'.status = "ok"
             /\ Len(after) = Len(kept)
             /\ \A i \in DOMAIN after :
                   /\ after[i].id = kept[i]
                   /\ after[i] \in Range(before)
             /\ [boards' EXCEPT ![b].columns = before] = boards
             /\ tasks' = tasks
             /\ stories' = stories
             /\ comments' = comments]_vars

\* a reorder that named an ID the board does not have, left out a column
\* that holds a task, and turned the order of two others
C24_Witness ==
    /\ Did("reorder_columns")
    /\ Absent \in Range(last.args[2])
    /\ LET columns == boards[last.args[1]].columns
       IN  /\ Len(columns) = 2
           /\ columns[1].name = "Done"
           /\ columns[2].name = "In Progress"
           /\ \E t \in DOMAIN tasks :
                 /\ tasks[t].board_id = last.args[1]
                 /\ \A i \in DOMAIN columns : columns[i].id # tasks[t].column_id

\* C25: rehome_task(t, s) returns the ID made of the code of s and that
\* code's counter plus 1, raises that counter by exactly 1 and leaves the
\* counters of other codes, stores under the new ID a task with the old
\* record's board_id, column_id, title, description, priority, estimate,
\* due date, tags and archived flag and with story_id s, and leaves the
\* number of tasks in the table unchanged.
C25_RehomeTask ==
    [][Returned("rehome_task") =>
         LET old == tasks[last'.args[1]]
             s == last'.args[2]
             code == stories[s].code
             n == Get(story_sequences, code, 0) + 1
             new_id == last'.ret
         IN  /\ new_id = FormatTaskId(code, n)
             /\ DOMAIN story_sequences' = DOMAIN story_sequences \cup {code}
             /\ story_sequences'[code] = n
             /\ \A c \in DOMAIN story_sequences \ {code} :
                   story_sequences'[c] = story_sequences[c]
             /\ new_id \in DOMAIN tasks'
             /\ last'.args[1] \notin DOMAIN tasks'
             /\ LET new == tasks'[new_id]
                IN  /\ new.id = new_id
                    /\ new.story_id = s
                    /\ new.board_id = old.board_id
                    /\ new.column_id = old.column_id
                    /\ new.title = old.title
                    /\ new.description = old.description
                    /\ new.priority = old.priority
                    /\ new.estimate = old.estimate
                    /\ new.due_date = old.due_date
                    /\ new.tags = old.tags
                    /\ new.archived = old.archived
             /\ Cardinality(DOMAIN tasks') = Cardinality(DOMAIN tasks)]_vars

\* an archived task was rehomed to a story of another code than the one
\* its old ID was issued under
C25_Witness ==
    /\ Did("rehome_task")
    /\ tasks[last.ret].archived
    /\ \E i \in DOMAIN issued :
          /\ issued[i].id = last.args[1]
          /\ issued[i].code # stories[last.args[2]].code

\* C26: create_task(b, c, s, title) with an existing story s adds exactly
\* one task, under the next sequential ID of the code of s, with board_id b,
\* column_id c and story_id s, not archived, whose history is exactly one
\* created entry with payload {board_id: b, column_id: c}; no other task,
\* no comment, no board and no story changes.
C26_CreateTask ==
    [][(last'.op = "create_task" /\ last'.args[3] \in DOMAIN stories) =>
         LET b == last'.args[1]
             c == last'.args[2]
             s == last'.args[3]
             code == stories[s].code
             new_id == last'.ret
         IN  /\ last'.status = "ok"
             /\ new_id = FormatTaskId(code, Get(story_sequences, code, 0) + 1)
             /\ new_id \notin DOMAIN tasks
             /\ DOMAIN tasks' = DOMAIN tasks \cup {new_id}
             /\ \A t \in DOMAIN tasks : tasks'[t] = tasks[t]
             /\ LET new == tasks'[new_id]
                IN  /\ new.id = new_id
                    /\ new.board_id = b
                    /\ new.column_id = c
                    /\ new.story_id = s
                    /\ ~new.archived
                    /\ Len(new.history) = 1
                    /\ new.history[1].event_type = "created"
                    /\ new.history[1].task_id = new_id
                    /\ new.history[1].payload = [board_id |-> b, column_id |-> c]
             /\ comments' = comments
             /\ boards' = boards
             /\ stories' = stories]_vars

\* a second task was created on a board the store has, beside a task that
\* has a comment
C26_Witness ==
    /\ Did("create_task")
    /\ tasks[last.ret].board_id \in DOMAIN boards
    /\ \E t \in DOMAIN tasks :
          /\ t # last.ret
          /\ \E c \in DOMAIN comments : comments[c].task_id = t

\* C27: archive_task(t, flag) on an existing task sets the archived flag to
\* flag and appends exactly one history entry, archived when flag is true
\* and unarchived when it is false, and changes nothing else; the task
\* stays in the table, tasks_for_board and tasks_for_story leave it out
\* while it is archived unless include_archived is set.
C27_ArchiveTask ==
    [][(last'.op = "archive_task" /\ last'.args[1] \in DOMAIN tasks) =>
         LET t == last'.args[1]
             flag == last'.args[2]
             old == tasks[t]
             new == tasks'[t]
             n == Len(old.history)
         IN  /\ last'.status = "ok"
             /\ DOMAIN tasks' = DOMAIN tasks
             /\ new.archived = flag
             /\ Len(new.history) = n + 1
             /\ SubSeq(new.history, 1, n) = old.history
             /\ new.history[n + 1].event_type =
                    (IF flag THEN "archived" ELSE "unarchived")
             /\ new.history[n + 1].task_id = t
             /\ [new EXCEPT !.archived = old.archived,
                            !.history = old.history] = old
             /\ \A u \in DOMAIN tasks \ {t} : tasks'[u] = tasks[u]
             /\ boards' = boards
             /\ stories' = stories
             /\ comments' = comments
             /\ reviews' = reviews
             /\ story_sequences' = story_sequences
             /\ \A b \in {old.board_id} : \A s \in {old.story_id} :
                   /\ (new \in tasks_for_board(b, FALSE)') <=> ~flag
                   /\ (new \in tasks_for_story(s, FALSE)') <=> ~flag
                   /\ new \in tasks_for_board(b, TRUE)'
                   /\ new \in tasks_for_story(s, TRUE)']_vars

\* a task archived twice and then unarchived: its history ends with the
\* three entries and the listings hold it again
C27_Witness ==
    /\ Did("archive_task")
    /\ last.args[2] = FALSE
    /\ last.args[1] \in DOMAIN tasks
    /\ LET task == tasks[last.args[1]]
           n == Len(task.history)
       IN  /\ n >= 4
           /\ task.history[n - 2].event_type = "archived"
           /\ task.history[n - 1].event_type = "archived"
           /\ task.history[n].event_type = "unarchived"
           /\ task \in tasks_for_story(task.story_id, FALSE)

\* C28: comments_for_task(t) returns exactly the comments whose task_id is
\* t, each once, in ascending order of timestamp, and changes no state of
\* the store.
C28_CommentsForTask ==
    [][last'.op = "comments_for_task" =>
         LET t == last'.args[1]
             s == last'.ret
             ids == {c \in DOMAIN comments : comments[c].task_id = t}
         IN  /\ last'.status = "ok"
             /\ Len(s) = Cardinality(ids)
             /\ {s[i].id : i \in DOMAIN s} = ids
             /\ \A i \in DOMAIN s : s[i] = comments[s[i].id]
             /\ \A i \in DOMAIN s : \A j \in DOMAIN s :
                   i < j => s[i].timestamp <= s[j].timestamp
             /\ UNCHANGED <<boards, stories, tasks, comments, reviews,
                            story_sequences, file, exported>>]_vars

\* two comments of a task were listed, the edited one after the other
\* because its edit gave it the later timestamp
C28_Witness ==
    /\ Did("comments_for_task")
    /\ Len(last.ret) = 2
    /\ last.ret[1].timestamp < last.ret[2].timestamp
    /\ last.ret[1].edited_history = <<>>
    /\ last.ret[2].edited_history # <<>>

\* C29: for a board and a range of dates [start, end], the projection's
\* history holds exactly the history entries of the board's tasks dated in
\* the range, bounds included; its comments hold exactly the comments on
\* the board's tasks dated in the range, also those of a task that has no
\* history entry in the range; its tasks are the board's tasks that have a
\* history entry or a comment in the range.
C29_SummaryProjection ==
    [][last'.op = "_generate_summary" =>
         LET b == last'.args[1]
             start == last'.args[2]
             end == last'.args[3]
             context == last'.ret
             of_board == {t \in DOMAIN tasks : tasks[t].board_id = b}
             dated(ts) == start <= ts \div InstantsPerDay
                          /\ ts \div InstantsPerDay <= end
             entries(t) == {tasks[t].history[i] : i \in
                              {j \in DOMAIN tasks[t].history :
                                  dated(tasks[t].history[j].timestamp)}}
             remarks(t) == {comments[c] : c \in
                              {x \in DOMAIN comments :
                                  /\ comments[x].task_id = t
                                  /\ dated(comments[x].timestamp)}}
         IN  /\ context.history = UNION {entries(t) : t \in of_board}
             /\ context.comments = UNION {remarks(t) : t \in of_board}
             /\ context.tasks =
                   {tasks[t] : t \in {u \in of_board :
                                         entries(u) \cup remarks(u) # {}}}]_vars

\* C30: with a clock that never goes backwards, the entries of every
\* task's history are in non-decreasing order of timestamp in every
\* reachable state, the histories carried to a new task by rehome_task
\* included.
C30_HistoryInTimestampOrder ==
    \A t \in DOMAIN tasks :
        \A i \in DOMAIN tasks[t].history : \A j \in DOMAIN tasks[t].history :
            i < j => tasks[t].history[i].timestamp <= tasks[t].history[j].timestamp

\* a task rehomed on a later instant than its second entry, which is later
\* than its creation: the history carried over ends with the rehome marker
C30_Witness ==
    /\ Did("rehome_task")
    /\ LET history == tasks[last.ret].history
       IN  /\ Len(history) = 3
           /\ history[1].event_type = "created"
           /\ history[3].event_type = "rehome"
           /\ history[1].timestamp < history[2].timestamp
           /\ history[2].timestamp < history[3].timestamp

\* C31: a rehomed task keeps its comments: after rehome_task(t, s) has
\* returned the new task n, the comments of n are exactly the comments t
\* had before the call, so that comments_for_task(n.id) lists them and
\* delete_task(n.id) deletes them.
C31_RehomeKeepsComments ==
    [][Returned("rehome_task") =>
         {c \in DOMAIN comments' : comments'[c].task_id = last'.ret}
            = {c \in DOMAIN comments : comments[c].task_id = last'.args[1]}]_vars

\* C32: in every state reached from the empty store by store operations
\* each comment's task_id is the ID of a task in the task table.
C32_NoOrphanComments ==
    \A c \in DOMAIN comments : comments[c].task_id \in DOMAIN tasks

\* C33: remove_column(b, c) affects only board b: every task whose board_id
\* is not b keeps its column_id and its history, and every other board
\* keeps its columns, also when c is not a column of b.
\* Checked for calls made when every task is on a board the store has, in a
\* column of that board.
C33_RemoveColumnOnlyItsBoard ==
    [][(/\ last'.op = "remove_column"
        /\ \A t \in DOMAIN tasks :
              /\ tasks[t].board_id \in DOMAIN boards
              /\ \E i \in DOMAIN boards[tasks[t].board_id].columns :
                    boards[tasks[t].board_id].columns[i].id = tasks[t].column_id) =>
         /\ \A t \in DOMAIN tasks :
               tasks[t].board_id # last'.args[1] =>
                  /\ t \in DOMAIN tasks'
                  /\ tasks'[t].column_id = tasks[t].column_id
                  /\ tasks'[t].history = tasks[t].history
         /\ \A b \in DOMAIN boards \ {last'.args[1]} :
               /\ b \in DOMAIN boards'
               /\ boards'[b].columns = boards[b].columns]_vars

\* C34: reorder_columns(b, ids) only permutes the columns of b: every column
\* the board had before the call is on it exactly once after the call, for
\* every sequence ids, also one that leaves a column out or repeats an ID.
\* Checked for boards whose column IDs are pairwise distinct before the call.
C34_ReorderPermutes ==
    [][(/\ last'.op = "reorder_columns"
        /\ last'.args[1] \in DOMAIN boards
        /\ \A i \in DOMAIN boards[last'.args[1]].columns :
              \A j \in DOMAIN boards[last'.args[1]].columns :
                 boards[last'.args[1]].columns[i].id
                    = boards[last'.args[1]].columns[j].id => i = j) =>
         LET before == boards[last'.args[1]].columns
             after == boards'[last'.args[1]].columns
         IN  \A k \in DOMAIN before :
                Cardinality({i \in DOMAIN after : after[i] = before[k]}) = 1]_vars

\* C35: in every state reached by store operations each task's board_id is
\* the ID of a board the store has, and its column_id is the empty string
\* or the ID of a column that board has.
C35_TaskOnBoardAndColumn ==
    \A t \in DOMAIN tasks :
        /\ tasks[t].board_id \in DOMAIN boards
        /\ \/ tasks[t].column_id = ""
           \/ \E i \in DOMAIN boards[tasks[t].board_id].columns :
                 boards[tasks[t].board_id].columns[i].id = tasks[t].column_id

\* C36: a store operation that fails because an ID is absent leaves the
\* boards, stories, tasks, comments, reviews and counters as they were
\* before the call; delete_board and delete_story with an absent ID delete
\* no task and no comment.
C36_FailedCallChangesNothing ==
    [][last'.status = "KeyError" =>
         UNCHANGED <<boards, stories, tasks, comments, reviews,
                     story_sequences>>]_vars

\* C37: an import_from that fails, for whatever reason, a document of the
\* right schema_version with a malformed record included, leaves the
\* collections, the counters and the backing file unchanged, with merge
\* and without.
C37_FailedImportChangesNothing ==
    [][(last'.op = "import_from" /\ last'.status # "ok") =>
         UNCHANGED <<boards, stories, tasks, comments, reviews,
                     story_sequences, file>>]_vars

\* C38: in every state reached by store operations and by imports, merging
\* or replacing, of documents export_to wrote, for every task in the table
\* whose ID is C-n the counter of code C exists and is at least n.
C38_CounterCoversTaskIds ==
    \A t \in DOMAIN tasks : \A c \in Codes : \A n \in 1..MaxUidAlloc :
        t = c \o "-" \o Pad3(n) =>
           /\ c \in DOMAIN story_sequences
           /\ story_sequences[c] >= n

\* a store constructed anew took its tasks from a document by a merging
\* import, the second task of a code among them
C38_Witness ==
    /\ Did("import_from")
    /\ last.args = <<"merge">>
    /\ issued = <<>>
    /\ \E c \in Codes : (c \o "-002") \in DOMAIN tasks

\* C39: a merging import is idempotent: import_from with merge=True called
\* a second time right after the first, with the same document, leaves the
\* boards, stories, tasks, comments, reviews and counters the first call
\* left.
C39_MergeImportIdempotent ==
    [][(/\ Did("import_from")
        /\ last.args = <<"merge">>
        /\ Returned("import_from")
        /\ last'.args = <<"merge">>) =>
         UNCHANGED <<boards, stories, tasks, comments, reviews,
                     story_sequences>>]_vars

\* a merging import into a store that had a story the document has not,
\* of a document with a task and a counter above zero
C39_Witness ==
    /\ Did("import_from")
    /\ last.args = <<"merge">>
    /\ \E s \in DOMAIN stories :
          \A d \in exported.doc.stories : d.id # s
    /\ \E d \in exported.doc.tasks : d.id \in DOMAIN tasks
    /\ \E c \in DOMAIN exported.doc.story_sequences :
          exported.doc.story_sequences[c] >= 1

\* C40: in every state reached by store operations every entry of a task's
\* history has the task_id of the task that holds it, the entries of a task
\* made by rehome_task included.
C40_HistoryTaskIdIsHolder ==
    \A t \in DOMAIN tasks : \A i \in DOMAIN tasks[t].history :
        tasks[t].history[i].task_id = t

\* C40, as the code has it: every entry of a task's history has the task_id
\* of the task that holds it or, when a rehome marker of the same task_id
\* stands at or after it, the ID the task had when the entry was appended;
\* every rehome marker names as new_task_id the task_id of the entry after
\* it, or the holder's ID when it is the last entry.
C40_HistoryTaskIdIsHolderOrEarlierId ==
    \A t \in DOMAIN tasks :
        LET history == tasks[t].history
        IN  \A i \in DOMAIN history :
               /\ \/ history[i].task_id = t
                  \/ \E j \in DOMAIN history :
                        /\ j >= i
                        /\ history[j].event_type = "rehome"
                        /\ history[j].task_id = history[i].task_id
               /\ history[i].event_type = "rehome" =>
                     history[i].payload.new_task_id =
                        (IF i < Len(history) THEN history[i + 1].task_id ELSE t)

\* a task rehomed twice: its history holds entries of three task IDs
C40_Witness ==
    /\ Did("rehome_task")
    /\ LET history == tasks[last.ret].history
       IN  /\ Len(history) = 3
           /\ history[1].event_type = "created"
           /\ history[2].event_type = "rehome"
           /\ history[3].event_type = "rehome"
           /\ history[1].task_id # history[3].task_id
           /\ history[3].task_id # last.ret

====
